---- MODULE Spec2Model ----
(***************************************************************************)
(* The asynchronous audio-encoding pipeline of maniac00/voj:               *)
(*   backend/app/services/encoding/encoding_queue.py  (EncodingQueue)      *)
(*   backend/app/services/encoding/retry_manager.py   (EncodingRetryManager)*)
(*                                                                         *)
(* Conventions                                                             *)
(*  - A code section run under `with self.lock:` is one atomic action.     *)
(*    The statements a worker runs outside the lock are one step each      *)
(*    (every attribute store is atomic under the interpreter lock).        *)
(*  - A text (error message) is a sequence of word tokens; punctuation is  *)
(*    a token of its own. `pattern in text` is contiguous sub-sequence     *)
(*    search, str.lower() maps every token through LowerWord.              *)
(*  - progress is kept in percent (0.1 -> 10, 1.0 -> 100); delays and      *)
(*    timestamps are whole seconds.                                        *)
(*  - The module encoding_queue.py never imports `os` (its import block,   *)
(*    lines 6-21), so every evaluation of the name `os` in _process_job    *)
(*    raises NameError: see OsBound.                                       *)
(***************************************************************************)
EXTENDS Integers, Sequences, FiniteSets, Bags, TLC

VARIABLES
    jobs,             \* EncodingQueue.jobs: job id -> EncodingJob
    job_queue,        \* EncodingQueue.job_queue (FIFO of job ids)
    running,          \* EncodingQueue.running
    workers,          \* EncodingQueue.workers: the worker threads and where each stands
    status_callbacks, \* EncodingQueue.status_callbacks: the callbacks, in order
    notified,         \* the notification fired in the latest step, if any
    failure_history,  \* EncodingRetryManager.failure_history: chapter -> timestamps
    retry_threads,    \* the sleeping threads started by schedule_retry (a bag)
    now,              \* the clock (seconds)
    nticks,           \* how often the clock has advanced (bounds the model)
    ret,              \* the call of submit_job / cancel_job / retry_job that returned
                      \* in the latest step, if any, and its result
    rmres,            \* the latest direct call of a retry-manager function and its result
    files,            \* the files that exist under the storage root
    chapters,         \* the AudioChapter store: chapter id -> what the queue marked on it
    stats_call,       \* the get_queue_stats call that holds self.lock, and its counts
    locked_calls      \* the calls of cancel_job and retry_job that are inside
                      \* `with self.lock`, and the locks each holds

vars == <<jobs, job_queue, running, workers, status_callbacks, notified,
          failure_history, retry_threads, now, nticks, ret, rmres,
          files, chapters, stats_call, locked_calls>>

----------------------------------------------------------------------------
(* Bounds of the model *)

MaxJobs == 2          \* submit_job calls in Spec
MaxRetryJobs == 1     \* submit_job calls in SpecRetry
MaxTicks == 3         \* clock advances in SpecRetry
MaxHistory == 6       \* failures recorded through record_failure in SpecRM
MaxHalfHours == 2     \* clock advances in SpecRM
MaxWords == 3         \* tokens of an error text in SpecAnalyze
MaxRetryInput == 4    \* largest retry_count of a job handed to the retry manager
                      \* (SpecRM, SpecAnalyze)
MaxDelayInput == 1024 \* largest retry_count handed to _calculate_delay (SpecDelay)
MaxTempFiles == 3     \* files under the storage root in SpecCleanup
MaxOldJobs == 1       \* submit_job calls in SpecOld
MaxAgeHours == 1      \* largest max_age_hours handed to cleanup_old_jobs
MaxWorkJobs == 1      \* submit_job calls in SpecWork
MaxWorkFiles == 2     \* files under the storage root when SpecWork starts
MaxSweepJobs == 2     \* submit_job calls in SpecSweep
MaxDedupJobs == 1     \* submit_job calls in SpecDedup
MaxQueueJobs == 11    \* submit_job calls in SpecQueue
MaxLifeJobs == 3      \* submit_job calls in SpecLife
MaxStarts == 2        \* start() calls that create workers in SpecLife
MaxFaultJobs == 2     \* submit_job calls in SpecFault
MaxOutageJobs == 1    \* submit_job calls in SpecOutage
MaxTimeoutJobs == 1   \* submit_job calls in SpecTimeout
MaxStatsJobs == 1     \* submit_job calls in SpecStats
MaxCapInput == 7      \* largest retry_count handed to analyze_failure in SpecCap
MaxLockJobs == 1      \* submit_job calls in SpecLocks
MaxLockTicks == 1     \* clock advances in SpecLocks

----------------------------------------------------------------------------
(* Program constants *)

max_workers == 2           \* EnvironmentEncodingConfig.max_workers, local profile
max_queue_size == 10       \* EnvironmentEncodingConfig.max_queue_size, local profile
job_max_retries == 3       \* EncodingJob.max_retries
policy_max_retries == 3    \* RetryPolicy.max_retries
base_delay == 1            \* RetryPolicy.base_delay
max_delay == 60            \* RetryPolicy.max_delay
backoff_multiplier == 2    \* RetryPolicy.backoff_multiplier
failure_threshold == 5     \* RetryPolicy.failure_threshold
RecentWindow == 3600       \* should_retry_automatically: "1 hour"

(* EnvironmentConfigManager: the retry tunables of the three profiles, and
   the profile _detect_environment selects (settings.ENVIRONMENT = "local") *)
Profiles ==
    [local      |-> [max_retries |-> 2, base_delay |-> 1, max_delay |-> 30],
     production |-> [max_retries |-> 5, base_delay |-> 2, max_delay |-> 300],
     staging    |-> [max_retries |-> 3, base_delay |-> 2, max_delay |-> 300]]
current_environment == "local"
SecondsPerHour == 3600     \* cleanup_old_jobs: max_age_hours * 3600
HistoryRetention == 86400  \* record_failure: 24 * 3600

JobIds == 1..(MaxJobs + MaxRetryJobs + MaxQueueJobs)
NoJob == 0
Chapters == {"chA", "chB"}

(* import block of encoding_queue.py: the name `os` is never bound *)
OsBound == FALSE

----------------------------------------------------------------------------
(* Texts *)

NONE == <<"<None>">>     \* Python's None where a text is expected

LowerWord(w) ==
    CASE w = "Processing" -> "processing"
      [] w = "Connection" -> "connection"
      [] w = "Permission" -> "permission"
      [] w = "Input"      -> "input"
      [] w = "Timeout"    -> "timeout"
      [] w = "Not"        -> "not"
      [] w = "Found"      -> "found"
      [] w = "Memory"     -> "memory"
      [] OTHER            -> w

(* str.lower() *)
Lower(text) == [i \in 1..Len(text) |-> LowerWord(text[i])]

(* `pattern in text` *)
In(pattern, text) ==
    \E i \in 0..(Len(text) - Len(pattern)) :
        \A k \in 1..Len(pattern) : text[i + k] = pattern[k]

temporary_patterns ==
    << <<"timeout">>, <<"network">>, <<"connection">>, <<"temporary">>,
       <<"busy">>, <<"locked">> >>

permanent_patterns ==
    << <<"not", "found">>, <<"permission", "denied">>, <<"invalid", "format">>,
       <<"corrupted">>, <<"unsupported">>, <<"codec", "not", "found">> >>

recoverable_patterns ==
    << <<"disk", "space">>, <<"memory">>, <<"resource">>, <<"quota">> >>

(* `for pattern in patterns: if pattern in error_message: return ...` *)
AnyPatternIn(patterns, text) ==
    \E i \in 1..Len(patterns) : In(patterns[i], text)

Min2(a, b) == IF a <= b THEN a ELSE b

(* p * b ** n, multiplied out only until it exceeds cap *)
RECURSIVE PowUpTo(_, _, _, _)
PowUpTo(b, n, p, cap) ==
    IF n = 0 \/ p > cap THEN p ELSE PowUpTo(b, n - 1, p * b, cap)

(* b ** n where the result is compared with max_delay: exact up to max_delay,
   some value above max_delay beyond it *)
Pow(b, n) == PowUpTo(b, n, 1, max_delay)

(* sys.float_info.max_exp: 2.0 ** n is a float only for n < 1024 *)
FloatMaxExp == 2 ^ 10

(* _calculate_delay, lines 132-134: float.__pow__ raises OverflowError when
   the power is no float; with backoff_multiplier 2.0 that is from
   retry_count = 1024 on *)
delay_raises(retry_count) ==
    backoff_multiplier = 2 /\ retry_count >= FloatMaxExp

(* EncodingRetryManager._calculate_delay, where it returns *)
calculate_delay(retry_count) ==
    Min2(base_delay * Pow(backoff_multiplier, retry_count), max_delay)

(* an analyze_failure that looks for the recoverable cues first *)
analyze_failure_recoverable_first(error_message, retry_count) ==
    LET msg == Lower(IF error_message = NONE THEN << >> ELSE error_message) IN
    IF AnyPatternIn(recoverable_patterns, msg)
    THEN [failure_type |-> "recoverable", is_retryable |-> TRUE,
          suggested_delay |-> calculate_delay(retry_count) * 2,
          error_category |-> "recoverable"]
    ELSE IF AnyPatternIn(permanent_patterns, msg)
    THEN [failure_type |-> "permanent", is_retryable |-> FALSE,
          suggested_delay |-> 0, error_category |-> "permanent"]
    ELSE IF AnyPatternIn(temporary_patterns, msg)
    THEN [failure_type |-> "temporary", is_retryable |-> TRUE,
          suggested_delay |-> calculate_delay(retry_count),
          error_category |-> "temporary"]
    ELSE [failure_type |-> "temporary",
          is_retryable |-> retry_count < policy_max_retries,
          suggested_delay |-> calculate_delay(retry_count),
          error_category |-> "unknown"]

(* EncodingRetryManager.analyze_failure, on job.error_message and job.retry_count *)
analyze_failure(error_message, retry_count) ==
    LET msg == Lower(IF error_message = NONE THEN << >> ELSE error_message) IN
    IF AnyPatternIn(permanent_patterns, msg)
    THEN [failure_type |-> "permanent", is_retryable |-> FALSE,
          suggested_delay |-> 0, error_category |-> "permanent"]
    ELSE IF AnyPatternIn(recoverable_patterns, msg)
    THEN [failure_type |-> "recoverable", is_retryable |-> TRUE,
          suggested_delay |-> calculate_delay(retry_count) * 2,
          error_category |-> "recoverable"]
    ELSE IF AnyPatternIn(temporary_patterns, msg)
    THEN [failure_type |-> "temporary", is_retryable |-> TRUE,
          suggested_delay |-> calculate_delay(retry_count),
          error_category |-> "temporary"]
    ELSE [failure_type |-> "temporary",
          is_retryable |-> retry_count < policy_max_retries,
          suggested_delay |-> calculate_delay(retry_count),
          error_category |-> "unknown"]

(* a should_retry_automatically that counts the failures however old *)
recent_failures_of_any_age(history, chapter_id, t) == history[chapter_id]

(* the list comprehension of should_retry_automatically, lines 150-154 *)
recent_failures(history, chapter_id, t) ==
    SelectSeq(history[chapter_id], LAMBDA f : t - f < RecentWindow)

(* a should_retry_automatically without the test of the retry count *)
should_retry_ignoring_retry_count(error_message, retry_count, chapter_id, history, t) ==
    IF ~analyze_failure(error_message, retry_count).is_retryable THEN FALSE
    ELSE IF Len(recent_failures(history, chapter_id, t)) >= failure_threshold THEN FALSE
    ELSE TRUE

(* EncodingRetryManager.should_retry_automatically *)
should_retry_automatically(error_message, retry_count, chapter_id, history, t) ==
    IF retry_count >= policy_max_retries THEN FALSE
    ELSE IF ~analyze_failure(error_message, retry_count).is_retryable THEN FALSE
    ELSE IF Len(recent_failures(history, chapter_id, t)) >= failure_threshold THEN FALSE
    ELSE TRUE

(* EncodingRetryManager.record_failure: the history after the call *)
record_failure(history, chapter_id, t) ==
    [history EXCEPT ![chapter_id] =
        SelectSeq(Append(@, t), LAMBDA f : f > t - HistoryRetention)]

----------------------------------------------------------------------------
(* The texts the worker can capture *)

(* str(NameError) for the unbound global `os` *)
NameErrorText == <<"name", "'os'", "is", "not", "defined">>

(* str(OSError) of a failing os.makedirs in file_manager.ensure_directories *)
ConnectionTimedOut == <<"[Errno 110]", "Connection", "timed", "out", ":", "<dir>">>
PermissionDenied == <<"[Errno 13]", "Permission", "denied", ":", "<dir>">>

(* encode_audio, lines 164-168: the error of the result when subprocess.run
   raises TimeoutExpired *)
EncodingTimeout == <<"Encoding", "timeout", "(", "exceeded", "5", "minutes", ")">>

(* the error of a failed EncodingResult (ffmpeg_service.encode_audio) *)
EncodeErrors ==
    { EncodingTimeout,
      <<"Encoding", "completed", "but", "output", "file", "not", "found">> }

(* the input paths callers submit, and those at which a file exists *)
InputPaths == {"/in/present.mp3", "/in/missing.mp3"}
ExistingFiles == {"/in/present.mp3", "/in/long.mp3"}

(* the inputs, all existing, that the transcoder cannot encode within the
   300 seconds subprocess.run gives it (encode_audio, line 128) *)
SlowInputs == {"/in/long.mp3"}

(* encode_audio: the results the transcoder can return for an input *)
encode_results(input_path) ==
    IF input_path \in SlowInputs
    THEN {[success |-> FALSE, error |-> EncodingTimeout]}
    ELSE {[success |-> TRUE, error |-> NONE]} \cup
         {[success |-> FALSE, error |-> e] : e \in EncodeErrors}

(* the books callers submit for, and those whose storage directories cannot be
   created: os.makedirs raises for them (here, a stalled network mount) *)
Books == {"bookA", "bookB"}
UnwritableBooks == {"bookB"}

(* line 300: f"Processing error: {str(e)}" *)
ProcessingError(e) == <<"Processing", "error", ":">> \o e

----------------------------------------------------------------------------
(* EncodingFileManager and the AudioChapter store *)

(* an id as the text a file name embeds: "ch10" begins with the text of "ch1" *)
IdText(id) == IF id = "ch10" THEN <<"ch1", "0">> ELSE <<id>>

(* get_file_paths, temp_path: <base>/book/<book_id>/temp/temp_<chapter_id>_<filename> *)
TempFile(book_id, chapter_id, filename) ==
    [book |-> book_id, dir |-> "temp",
     name |-> <<"temp_">> \o IdText(chapter_id) \o <<"_">> \o filename]

(* cleanup_temp_files, lines 168-180: the files the call removes, those of
   the book's temp directory whose name contains chapter_id *)
cleanup_removed(fs, book_id, chapter_id) ==
    {f \in fs : f.book = book_id /\ f.dir = "temp" /\ In(IdText(chapter_id), f.name)}

(* cleanup_temp_files: the files that exist after the call; it returns
   Cardinality(cleanup_removed(fs, book_id, chapter_id)) *)
cleanup_temp_files(fs, book_id, chapter_id) == fs \ cleanup_removed(fs, book_id, chapter_id)

(* the output path the encode endpoint hands to submit_job:
   <input's parent's parent>/media/<input's stem>.m4a *)
output_path(job) ==
    [book |-> job.book_id, dir |-> "media",
     name |-> <<CASE job.input_path = "/in/present.mp3" -> "present"
                  [] job.input_path = "/in/long.mp3" -> "long"
                  [] OTHER -> "missing",
                ".m4a">>]

(* the store before the queue has marked any chapter; `available` is whether
   the store answers: while it is not, AudioChapter.get_by_id and save raise *)
NoChapters ==
    [c \in Chapters |-> [status |-> "processing", error_message |-> NONE,
                         marked_error |-> 0, marked_completed |-> 0,
                         available |-> TRUE]]

(* str() of the exception an unavailable store raises in get_by_id or save *)
StoreErrorText == <<"Could", "not", "connect", "to", "the", "endpoint", "URL">>

(* _update_chapter_on_failure: chapter.mark_processing_error(message) *)
mark_processing_error(store, chapter_id, message) ==
    [store EXCEPT ![chapter_id] =
        [@ EXCEPT !.status = "error", !.error_message = message,
                  !.marked_error = @ + 1]]

(* _update_chapter_on_success: chapter.mark_processing_completed(metadata) *)
mark_processing_completed(store, chapter_id) ==
    [store EXCEPT ![chapter_id] =
        [@ EXCEPT !.status = "ready", !.marked_completed = @ + 1]]

(* a _update_chapter_on_success / _update_chapter_on_failure without the
   try block: the exception of an unavailable store reaches _process_job *)
update_chapter_raises_on_outage(store, chapter_id) == ~store[chapter_id].available

(* _update_chapter_on_success, lines 343-344, _update_chapter_on_failure, lines
   352-353: whatever the store raises is logged, the call returns *)
update_chapter_raises(store, chapter_id) == FALSE

(* _update_chapter_on_failure, lines 348-353: the store after the call *)
update_chapter_on_failure(store, chapter_id, message) ==
    IF store[chapter_id].available
    THEN mark_processing_error(store, chapter_id, message)
    ELSE store

(* _update_chapter_on_success, lines 318-344: the store after the call *)
update_chapter_on_success(store, chapter_id) ==
    IF store[chapter_id].available
    THEN mark_processing_completed(store, chapter_id)
    ELSE store

(* job.error_message or "Encoding failed" *)
error_or_default(error_message) ==
    IF error_message = NONE \/ error_message = << >> THEN <<"Encoding", "failed">>
    ELSE error_message

----------------------------------------------------------------------------
(* EncodingQueue *)

NoCall == [op |-> "none", job_id |-> NoJob, val |-> FALSE]
NoNotify == [job_id |-> NoJob, status |-> "none", called |-> << >>, raised |-> {}]

(* no get_queue_stats call holds the lock *)
NoStats == [pc |-> "none", counts |-> << >>, total_jobs |-> 0]

(* the threads that call cancel_job and retry_job in SpecLocks: a caller of
   the API, and a retry thread that has slept its delay *)
Callers == {"api", "retry_thread"}

(* no call of cancel_job or retry_job is inside `with self.lock` *)
NoLockedCall == [op |-> "none", job_id |-> NoJob, pc |-> "none", held |-> << >>,
                 callback |-> 0, val |-> FALSE]
NoCalls == [c \in Callers |-> NoLockedCall]

(* started_at, completed_at: Optional[datetime] = None *)
NoTime == -1

(* submit_job, lines 135-143: the EncodingJob a submission creates *)
NewJob(chapter_id, book_id, input_path) ==
    [chapter_id |-> chapter_id, book_id |-> book_id, input_path |-> input_path,
     status |-> "pending", created_at |-> now, started_at |-> NoTime,
     completed_at |-> NoTime,
     error_message |-> NONE, retry_count |-> 0, progress |-> 0,
     in_jobs |-> TRUE]

(* self.jobs.get(job_id) is a job: cleanup_old_jobs has not deleted the entry.
   A deleted job stays in `jobs` with in_jobs FALSE, as the object stays with
   the worker that holds it. *)
jobs_has(job_id) == job_id \in DOMAIN jobs /\ jobs[job_id].in_jobs

(* a worker thread: where it stands in _worker / _process_job, the job id it
   dequeued, the exception it caught, the transcoder's result, and whether
   the list self.workers holds the thread. At "idle" the thread waits in
   job_queue.get; at "exited" it has left _worker. *)
NoResult == [success |-> FALSE, error |-> NONE]
IdleWorker == [pc |-> "idle", job_id |-> NoJob, exc |-> NONE, result |-> NoResult,
               in_workers |-> TRUE]

(* _worker, line 193: back at `while self.running` after an id was handled *)
loop_head(w) ==
    [IdleWorker EXCEPT !.in_workers = w.in_workers,
                       !.pc = IF running THEN "idle" ELSE "exited"]

(* the stop signal stop() puts on the queue: None *)
StopSignal == NoJob

(* str(uuid.uuid4()): an id no job carries *)
uuid4 == CHOOSE id \in JobIds \ DOMAIN jobs : \A o \in JobIds \ DOMAIN jobs : id <= o

(* a schedule_retry whose thread does not sleep *)
schedule_retry_without_sleep(job_id, job, history, threads) ==
    IF should_retry_automatically(job.error_message, job.retry_count,
                                  job.chapter_id, history, now)
    THEN threads (+) SetToBag({[job_id |-> job_id, due |-> now]})
    ELSE threads

(* schedule_retry: the sleeping retry threads after the call *)
schedule_retry(job_id, job, history, threads) ==
    IF should_retry_automatically(job.error_message, job.retry_count,
                                  job.chapter_id, history, now)
    THEN threads (+) SetToBag({[job_id |-> job_id,
             due |-> now + analyze_failure(job.error_message, job.retry_count).suggested_delay]})
    ELSE threads

(* handle_job_failure: record the failure, analyse it, schedule the retry *)
handle_job_failure(job_id, job, threads) ==
    LET history == record_failure(failure_history, job.chapter_id, now)
        analysis == analyze_failure(job.error_message, job.retry_count)
    IN  /\ failure_history' = history
        /\ retry_threads' = IF analysis.is_retryable
                            THEN schedule_retry(job_id, job, history, threads)
                            ELSE threads

(* an on_job_failure that hands every notification to handle_job_failure *)
on_job_failure_any_status(job) == TRUE

(* setup_retry_system.on_job_failure: which notifications reach handle_job_failure *)
on_job_failure(job) == job.status = "failed"

(* the registered callbacks that can raise: status_manager.notify_status_change
   (registered at line 488), whose handler for a raising subscriber (line 481)
   reads self.logger, an attribute EncodingStatusManager never sets *)
raising_callbacks(cbs) ==
    {cbs[i] : i \in {k \in DOMAIN cbs : cbs[k] = "status_manager"}}

(* a _notify_status_change whose loop ends at the first callback that raises *)
after_callback_raised_stop(rest) == << >>

(* _notify_status_change, lines 95-98: the exception of a callback is logged
   and the loop goes on with the callbacks after it *)
after_callback_raised(rest) == rest

(* _notify_status_change, lines 94-98: the callbacks the loop calls, in order,
   when those of `raising` raise *)
RECURSIVE callbacks_called(_, _)
callbacks_called(cbs, raising) ==
    IF cbs = << >> THEN << >>
    ELSE <<Head(cbs)>> \o
         callbacks_called(IF Head(cbs) \in raising
                          THEN after_callback_raised(Tail(cbs)) ELSE Tail(cbs),
                          raising)

(* setup_retry_system has registered on_job_failure *)
retry_system_installed == In(<<"on_job_failure">>, status_callbacks)

(* _notify_status_change: every registered callback sees the job as it is now.
   `threads` are the retry threads left sleeping by the caller. *)
notify_status_change(job_id, job, threads) ==
    \E raising \in SUBSET raising_callbacks(status_callbacks) :
        LET called == callbacks_called(status_callbacks, raising) IN
        /\ notified' = [job_id |-> job_id, status |-> job.status,
                        called |-> called, raised |-> raising]
        /\ IF In(<<"on_job_failure">>, called) /\ on_job_failure(job)
           THEN handle_job_failure(job_id, job, threads)
           ELSE /\ failure_history' = failure_history
                /\ retry_threads' = threads

(* start; it is not called while a stop() is waiting for the workers *)
start ==
    /\ running \/ \A t \in DOMAIN workers : ~workers[t].in_workers
    /\ IF running
       THEN UNCHANGED <<running, workers>>
       ELSE /\ running' = TRUE
            /\ workers' = workers \o [i \in 1..max_workers |-> IdleWorker]
    /\ ret' = [op |-> "start", job_id |-> NoJob, val |-> ~running]
    /\ notified' = NoNotify
    /\ UNCHANGED <<jobs, job_queue, status_callbacks, stats_call, locked_calls, failure_history,
                   retry_threads, now, nticks, rmres, files, chapters>>

(* stop, lines 118-122: running is reset and one stop signal per listed
   worker is put on the queue *)
stop_signal ==
    /\ running
    /\ running' = FALSE
    /\ job_queue' = job_queue \o
          [i \in 1..Cardinality({t \in DOMAIN workers : workers[t].in_workers})
             |-> StopSignal]
    /\ ret' = NoCall /\ notified' = NoNotify
    /\ UNCHANGED <<jobs, workers, status_callbacks, stats_call, locked_calls, failure_history,
                   retry_threads, now, nticks, rmres, files, chapters>>

(* stop, lines 125-129: every join has returned, because the worker has exited
   or because 5 seconds have passed (a worker that waits in get, which polls
   every second, has exited by then), and the list is cleared *)
stop_return ==
    /\ ~running
    /\ \E t \in DOMAIN workers : workers[t].in_workers
    /\ \A t \in DOMAIN workers : workers[t].in_workers => workers[t].pc # "idle"
    /\ workers' = [t \in DOMAIN workers |-> [workers[t] EXCEPT !.in_workers = FALSE]]
    /\ ret' = [op |-> "stop", job_id |-> NoJob, val |-> TRUE]
    /\ notified' = NoNotify
    /\ UNCHANGED <<jobs, job_queue, running, status_callbacks, stats_call, locked_calls, failure_history,
                   retry_threads, now, nticks, rmres, files, chapters>>

(* a submit_job that enqueues only once the queue was started *)
enqueued_if_running(job_id) == IF running THEN Append(job_queue, job_id) ELSE job_queue

(* submit_job, line 147: the queue after the submission *)
enqueued(job_id) == Append(job_queue, job_id)

(* submit_job *)
submit_job(chapter_id, book_id, input_path) ==
    /\ LET job_id == uuid4 IN
        /\ jobs' = [id \in DOMAIN jobs \cup {job_id} |->
                       IF id = job_id THEN NewJob(chapter_id, book_id, input_path)
                       ELSE jobs[id]]
        /\ job_queue' = enqueued(job_id)
        /\ ret' = [op |-> "submit", job_id |-> job_id, val |-> TRUE]
    /\ notified' = NoNotify
    /\ UNCHANGED <<running, workers, status_callbacks, stats_call, locked_calls, failure_history,
                   retry_threads, now, nticks, rmres, files, chapters>>

(* a cancel_job that also cancels a job a worker is processing *)
cancel_allowed_processing(job_id) ==
    jobs_has(job_id) /\ jobs[job_id].status \in {"pending", "processing"}

(* cancel_job, line 171: the test under the lock *)
cancel_allowed(job_id) ==
    jobs_has(job_id) /\ jobs[job_id].status = "pending"

(* cancel_job *)
cancel_job(job_id) ==
    /\ IF cancel_allowed(job_id)
       THEN LET job == [jobs[job_id] EXCEPT !.status = "cancelled"] IN
            /\ jobs' = [jobs EXCEPT ![job_id] = job]
            /\ notify_status_change(job_id, job, retry_threads)
            /\ ret' = [op |-> "cancel", job_id |-> job_id, val |-> TRUE]
       ELSE /\ ret' = [op |-> "cancel", job_id |-> job_id, val |-> FALSE]
            /\ notified' = NoNotify
            /\ UNCHANGED <<jobs, failure_history, retry_threads>>
    /\ UNCHANGED <<job_queue, running, workers, status_callbacks, stats_call, locked_calls, now, nticks, rmres, files, chapters>>

(* a retry_job that allows one retry more than max_retries *)
retry_allowed_once_more(job_id) ==
    /\ jobs_has(job_id)
    /\ jobs[job_id].status = "failed"
    /\ jobs[job_id].retry_count <= job_max_retries

(* a retry_job that does not test the job's status *)
retry_allowed_any_status(job_id) ==
    /\ jobs_has(job_id)
    /\ jobs[job_id].retry_count < job_max_retries

(* retry_job, line 181: the test under the lock *)
retry_allowed(job_id) ==
    /\ jobs_has(job_id)
    /\ jobs[job_id].status = "failed"
    /\ jobs[job_id].retry_count < job_max_retries

(* a retry_job that does not count the retry *)
retried_uncounted(job) ==
    [job EXCEPT !.status = "pending", !.error_message = NONE, !.progress = 0]

(* a retry_job that leaves progress as the failed attempt left it *)
retried_keeping_progress(job) ==
    [job EXCEPT !.status = "pending", !.retry_count = @ + 1, !.error_message = NONE]

(* retry_job, lines 182-185: the job after a successful retry *)
retried(job) ==
    [job EXCEPT !.status = "pending", !.retry_count = @ + 1,
                !.error_message = NONE, !.progress = 0]

(* a retry_job that does not put the id on the queue *)
requeued_nowhere(job_id) == job_queue

(* retry_job, line 186: the queue after a successful retry *)
requeued(job_id) == Append(job_queue, job_id)

(* retry_job; `threads` are the retry threads left sleeping by the caller *)
retry_job(job_id, threads) ==
    IF retry_allowed(job_id)
    THEN LET job == retried(jobs[job_id]) IN
         /\ jobs' = [jobs EXCEPT ![job_id] = job]
         /\ job_queue' = requeued(job_id)
         /\ notify_status_change(job_id, job, threads)
         /\ ret' = [op |-> "retry", job_id |-> job_id, val |-> TRUE]
    ELSE /\ ret' = [op |-> "retry", job_id |-> job_id, val |-> FALSE]
         /\ notified' = NoNotify
         /\ retry_threads' = threads
         /\ UNCHANGED <<jobs, job_queue, failure_history>>

(* POST /jobs/{job_id}/retry: a caller's retry *)
manual_retry(job_id) ==
    /\ retry_job(job_id, retry_threads)
    /\ UNCHANGED <<running, workers, status_callbacks, stats_call, locked_calls, now, nticks, rmres, files, chapters>>

(* schedule_retry.retry_job: a retry thread wakes after its sleep and retries *)
retry_thread_wake(r) ==
    /\ now >= r.due
    /\ retry_job(r.job_id, retry_threads (-) SetToBag({r}))
    /\ UNCHANGED <<running, workers, status_callbacks, stats_call, locked_calls, now, nticks, rmres, files, chapters>>

(* a clear_failure_history that clears every chapter, whichever it is given *)
cleared_every_chapter(history, chapter_id) == [c \in Chapters |-> << >>]

(* EncodingRetryManager.clear_failure_history; "*" stands for chapter_id=None *)
cleared(history, chapter_id) ==
    IF chapter_id = "*"
    THEN [c \in Chapters |-> << >>]
    ELSE [history EXCEPT ![chapter_id] = << >>]

(* clear_failure_history, lines 279 and 285: the count it returns *)
removed_count(history, chapter_id) ==
    IF chapter_id = "*"
    THEN Len(history["chA"]) + Len(history["chB"])
    ELSE Len(history[chapter_id])

clear_failure_history(chapter_id) ==
    /\ failure_history' = cleared(failure_history, chapter_id)
    /\ ret' = NoCall /\ notified' = NoNotify
    /\ UNCHANGED <<jobs, job_queue, running, workers, status_callbacks, stats_call, locked_calls,
                   retry_threads, now, nticks, rmres, files, chapters>>

----------------------------------------------------------------------------
(* The worker threads: _worker and _process_job *)

SetWorker(t, w) == [workers EXCEPT ![t] = w]
Goto(t, pc) == SetWorker(t, [workers[t] EXCEPT !.pc = pc])
Raise(t, e) == SetWorker(t, [workers[t] EXCEPT !.pc = "L299", !.exc = e])

(* _worker, lines 193-202: a worker that waits in get takes the next item off
   the queue and leaves the loop if it is the stop signal.
   The workers run the same code: of the idle ones, the first takes the item. *)
worker_get(t) ==
    /\ workers[t].pc = "idle"
    /\ \A u \in 1..(t - 1) : workers[u].pc # "idle"
    /\ job_queue # << >>
    /\ job_queue' = Tail(job_queue)
    /\ workers' = IF Head(job_queue) = StopSignal THEN Goto(t, "exited")
                   ELSE SetWorker(t, [workers[t] EXCEPT !.pc = "L211",
                                                        !.job_id = Head(job_queue)])
    /\ ret' = NoCall /\ notified' = NoNotify
    /\ UNCHANGED <<jobs, running, status_callbacks, stats_call, locked_calls, failure_history,
                   retry_threads, now, nticks, rmres, files, chapters>>

(* _worker, lines 193, 204-205: get times out on an empty queue, or the
   worker had not yet called it, and `while self.running` ends the loop *)
worker_exit(t) ==
    /\ ~running
    /\ workers[t].pc = "idle"
    /\ workers' = Goto(t, "exited")
    /\ ret' = NoCall /\ notified' = NoNotify
    /\ UNCHANGED <<jobs, job_queue, running, status_callbacks, stats_call, locked_calls, failure_history,
                   retry_threads, now, nticks, rmres, files, chapters>>

(* a _process_job that claims whatever id it dequeued, unless it is being processed *)
claimable_unless_processing(job_id) ==
    jobs_has(job_id) /\ jobs[job_id].status # "processing"

(* _process_job, line 213: the test under the lock *)
claimable(job_id) ==
    jobs_has(job_id) /\ jobs[job_id].status = "pending"

(* _process_job, lines 216-218: the job a worker has claimed *)
claimed(job) ==
    [job EXCEPT !.status = "processing", !.started_at = now, !.progress = 10]

(* _process_job, lines 211-218: the claim under the lock *)
process_claim(t) ==
    /\ workers[t].pc = "L211"
    /\ IF claimable(workers[t].job_id)
       THEN /\ jobs' = [jobs EXCEPT ![workers[t].job_id] = claimed(@)]
            /\ workers' = Goto(t, "L220")
       ELSE /\ workers' = SetWorker(t, loop_head(workers[t]))
            /\ UNCHANGED jobs
    /\ ret' = NoCall /\ notified' = NoNotify
    /\ UNCHANGED <<job_queue, running, status_callbacks, stats_call, locked_calls, failure_history,
                   retry_threads, now, nticks, rmres, files, chapters>>

(* the errors os.makedirs raises in this model *)
OsErrorTexts == {ConnectionTimedOut, PermissionDenied}

(* a preparation that never raises *)
prepare_outcome_always_passes(job) == NONE

(* _process_job, lines 227-230: ensure_directories raises OSError when the
   book's directories cannot be created; when it returns, the lookup of `os`
   raises NameError unless the name is bound; with the name bound a missing
   input raises FileNotFoundError. NONE: no exception. *)
prepare_outcome(job) ==
    IF job.book_id \in UnwritableBooks THEN ConnectionTimedOut
    ELSE IF ~OsBound THEN NameErrorText
    ELSE IF job.input_path \in ExistingFiles THEN NONE
    ELSE <<"Input", "file", "not", "found", ":", job.input_path>>

(* validate_file_integrity as _process_job uses it: None, or the error text *)
integrity_outcomes ==
    {NONE, <<"File", "not", "found">>, <<"Empty", "file">>}

(* _process_job, lines 299-300: the writes of the except branch *)
failed_status(job) == [job EXCEPT !.status = "failed"]
failed_message(job, e) == [job EXCEPT !.error_message = ProcessingError(e)]

(* _process_job, lines 220-314: the steps a worker runs outside the lock.
   A step that touches no job field and no queue state (logging, a
   directory made) is taken together with the step before it; the marks on
   the chapter store and the files removed (lines 266-278, 288-295, 303-309)
   are the last three conjuncts. *)
process_step(t) ==
    LET w == workers[t]
        j == w.job_id
        job == jobs[j]
        quiet == /\ notified' = NoNotify
                 /\ failure_history' = failure_history
                 /\ retry_threads' = retry_threads
    IN
    /\ w.pc \notin {"idle", "exited", "L211"}
    /\ CASE w.pc = "L220" ->
              /\ notify_status_change(j, job, retry_threads)
              /\ workers' = IF prepare_outcome(job) = NONE THEN Goto(t, "L234")
                             ELSE Raise(t, prepare_outcome(job))
              /\ UNCHANGED jobs
         [] w.pc = "L234" ->
              /\ \E e \in {NONE} \cup OsErrorTexts :
                    workers' = IF e = NONE THEN Goto(t, "L237") ELSE Raise(t, e)
              /\ quiet /\ UNCHANGED jobs
         [] w.pc = "L237" ->
              /\ jobs' = [jobs EXCEPT ![j].progress = 30]
              /\ workers' = Goto(t, "L238")
              /\ quiet
         [] w.pc = "L238" ->
              /\ notify_status_change(j, job, retry_threads)
              /\ \E e \in integrity_outcomes :
                    workers' = IF e = NONE THEN Goto(t, "L246")
                               ELSE Raise(t, <<"Input", "file", "integrity", "check",
                                               "failed", ":">> \o e)
              /\ UNCHANGED jobs
         [] w.pc = "L246" ->
              /\ jobs' = [jobs EXCEPT ![j].progress = 50]
              /\ workers' = Goto(t, "L247")
              /\ quiet
         [] w.pc = "L247" ->
              /\ notify_status_change(j, job, retry_threads)
              /\ \E r \in encode_results(job.input_path) :
                    workers' = SetWorker(t, [w EXCEPT !.pc = "L253", !.result = r])
              /\ UNCHANGED jobs
         [] w.pc = "L253" ->
              /\ jobs' = [jobs EXCEPT ![j].progress = 80]
              /\ workers' = Goto(t, "L254")
              /\ quiet
         [] w.pc = "L254" ->
              /\ notify_status_change(j, job, retry_threads)
              /\ IF w.result.success
                 THEN \E e \in integrity_outcomes :
                        workers' = IF e = NONE THEN Goto(t, "L263")
                                   ELSE Raise(t, <<"Encoded", "file", "validation",
                                                   "failed", ":">> \o e)
                 ELSE workers' = Goto(t, "L282")
              /\ UNCHANGED jobs
         [] w.pc = "L263" ->
              /\ jobs' = [jobs EXCEPT ![j].status = "completed", ![j].completed_at = now]
              /\ workers' = Goto(t, "L265")
              /\ quiet
         [] w.pc = "L265" ->
              /\ jobs' = [jobs EXCEPT ![j].progress = 100]
              /\ workers' = IF update_chapter_raises(chapters, job.chapter_id)
                             THEN Raise(t, StoreErrorText)
                             ELSE Goto(t, "L314")
              /\ quiet
         [] w.pc = "L282" ->
              /\ jobs' = [jobs EXCEPT ![j].status = "failed"]
              /\ workers' = Goto(t, "L283")
              /\ quiet
         [] w.pc = "L283" ->
              /\ jobs' = [jobs EXCEPT ![j].error_message = w.result.error]
              /\ workers' = IF update_chapter_raises(chapters, job.chapter_id)
                             THEN Raise(t, StoreErrorText)
                             ELSE IF OsBound THEN Goto(t, "L314")
                             ELSE Raise(t, NameErrorText)
              /\ quiet
         [] w.pc = "L299" ->
              /\ jobs' = [jobs EXCEPT ![j] = failed_status(@)]
              /\ workers' = Goto(t, "L300")
              /\ quiet
         [] w.pc = "L300" ->
              /\ jobs' = [jobs EXCEPT ![j] = failed_message(@, w.exc)]
              /\ workers' = Goto(t, "L303")
              /\ quiet
         [] w.pc = "L303" ->
              /\ workers' = IF update_chapter_raises(chapters, job.chapter_id)
                             THEN Raise(t, StoreErrorText)
                             ELSE Goto(t, "L314")
              /\ quiet /\ UNCHANGED jobs
         [] w.pc = "L314" ->
              /\ notify_status_change(j, job, retry_threads)
              /\ workers' = SetWorker(t, loop_head(w))
              /\ UNCHANGED jobs
    /\ chapters' =
          CASE w.pc = "L265" -> update_chapter_on_success(chapters, job.chapter_id)
            [] w.pc = "L283" -> update_chapter_on_failure(chapters, job.chapter_id,
                                    error_or_default(w.result.error))
            [] w.pc = "L303" -> update_chapter_on_failure(chapters, job.chapter_id,
                                    error_or_default(job.error_message))
            [] OTHER -> chapters
    /\ files' =
          CASE w.pc = "L265" -> cleanup_temp_files(files, job.book_id, job.chapter_id)
            [] w.pc = "L283" -> IF OsBound THEN files \ {output_path(job)} ELSE files
            [] w.pc = "L303" -> cleanup_temp_files(files, job.book_id, job.chapter_id)
                                    \ (IF OsBound THEN {output_path(job)} ELSE {})
            [] OTHER -> files
    /\ ret' = NoCall
    /\ UNCHANGED <<job_queue, running, status_callbacks, stats_call, locked_calls, now, nticks, rmres>>

----------------------------------------------------------------------------
(* The clock *)

(* time passes until the next sleeping retry thread is due *)
TimeSteps ==
    {r.due - now : r \in {x \in BagToSet(retry_threads) : x.due > now}}

Tick ==
    /\ nticks < MaxTicks
    /\ \E d \in TimeSteps : now' = now + d
    /\ nticks' = nticks + 1
    /\ ret' = NoCall /\ notified' = NoNotify
    /\ UNCHANGED <<jobs, job_queue, running, workers, status_callbacks, stats_call, locked_calls,
                   failure_history, retry_threads, rmres, files, chapters>>

----------------------------------------------------------------------------
(* Spec: the queue, its callers and its workers *)

Init ==
    /\ jobs = << >>
    /\ job_queue = << >>
    /\ running = FALSE
    /\ workers = << >>
    /\ status_callbacks = << >>
    /\ stats_call = NoStats
    /\ locked_calls = NoCalls
    /\ notified = NoNotify
    /\ failure_history = [c \in Chapters |-> << >>]
    /\ retry_threads = EmptyBag
    /\ now = 0
    /\ nticks = 0
    /\ ret = NoCall
    /\ files = {}
    /\ chapters = NoChapters
    /\ rmres = NoCall

(* a caller submits one of `inputs`, while fewer than max_jobs were submitted *)
Submit(max_jobs, inputs) ==
    /\ Cardinality(DOMAIN jobs) < max_jobs
    /\ \E in \in inputs : submit_job(in[1], in[2], in[3])

(* the ids callers pass: those of the jobs, and one no job carries *)
CallerIds == DOMAIN jobs \cup {uuid4}

Next ==
    \/ start
    \/ Submit(MaxJobs, {<<"chA", "bookA", "/in/missing.mp3">>})
    \/ \E id \in CallerIds : cancel_job(id)
    \/ \E id \in CallerIds : manual_retry(id)
    \/ \E t \in DOMAIN workers : worker_get(t)
    \/ \E t \in DOMAIN workers : process_claim(t)
    \/ \E t \in DOMAIN workers : process_step(t)

Spec == Init /\ [][Next]_vars

----------------------------------------------------------------------------
(* SpecRetry: the queue with the retry system installed (setup_retry_system)
   and the workers started (start); every retry is an automatic one.
   The sweep of start_scheduler (lines 296-318) retries a Failed job only if
   its completed_at is set, which line 264 alone does, for a Completed job:
   the sweep changes nothing and has no action here. *)

InitRetry ==
    /\ jobs = << >>
    /\ job_queue = << >>
    /\ running = TRUE
    /\ workers = [i \in 1..max_workers |-> IdleWorker]
    /\ status_callbacks = <<"on_job_failure">>
    /\ stats_call = NoStats
    /\ locked_calls = NoCalls
    /\ notified = NoNotify
    /\ failure_history = [c \in Chapters |-> << >>]
    /\ retry_threads = EmptyBag
    /\ now = 0
    /\ nticks = 0
    /\ ret = NoCall
    /\ files = {}
    /\ chapters = NoChapters
    /\ rmres = NoCall

NextRetry ==
    \/ Submit(MaxRetryJobs, Chapters \X Books \X {"/in/missing.mp3"})
    \/ \E t \in DOMAIN workers : worker_get(t)
    \/ \E t \in DOMAIN workers : process_claim(t)
    \/ \E t \in DOMAIN workers : process_step(t)
    \/ \E r \in BagToSet(retry_threads) : retry_thread_wake(r)
    \/ \E c \in Chapters \cup {"*"} : clear_failure_history(c)
    \/ Tick

SpecRetry == InitRetry /\ [][NextRetry]_vars

----------------------------------------------------------------------------
(* SpecRM: the retry manager called directly, as tests/test_retry_manager.py
   calls it: failures recorded for a chapter, the history cleared, the clock
   advanced by half hours, and should_retry_automatically asked about a job
   with a given error_message, retry_count and chapter_id *)

(* the error messages of the jobs handed to the retry manager *)
ManagerTexts ==
    { ProcessingError(NameErrorText),
      ProcessingError(ConnectionTimedOut),
      ProcessingError(<<"Input", "file", "not", "found", ":", "/in/missing.mp3">>) }

rm_record_failure(chapter_id) ==
    /\ Len(failure_history["chA"]) + Len(failure_history["chB"]) < MaxHistory
    /\ failure_history' = record_failure(failure_history, chapter_id, now)
    /\ rmres' = NoCall
    /\ UNCHANGED <<jobs, job_queue, running, workers, status_callbacks, stats_call, locked_calls, notified,
                   retry_threads, now, nticks, ret, files, chapters>>

(* one query at a time: the result of the one before has been read *)
rm_should_retry(error_message, retry_count, chapter_id) ==
    /\ rmres.op \in {"none", "clear"}
    /\ rmres' = [op |-> "should_retry", error_message |-> error_message,
                 retry_count |-> retry_count, chapter_id |-> chapter_id,
                 val |-> should_retry_automatically(error_message, retry_count,
                                                    chapter_id, failure_history, now)]
    /\ UNCHANGED <<jobs, job_queue, running, workers, status_callbacks, stats_call, locked_calls, notified,
                   failure_history, retry_threads, now, nticks, ret, files, chapters>>

rm_clear_failure_history(chapter_id) ==
    /\ failure_history' = cleared(failure_history, chapter_id)
    /\ rmres' = [op |-> "clear", chapter_id |-> chapter_id,
                 before |-> failure_history,
                 val |-> removed_count(failure_history, chapter_id)]
    /\ UNCHANGED <<jobs, job_queue, running, workers, status_callbacks, stats_call, locked_calls, notified,
                   retry_threads, now, nticks, ret, files, chapters>>

(* half an hour passes *)
HalfHour ==
    /\ nticks < MaxHalfHours
    /\ now' = now + RecentWindow \div 2
    /\ nticks' = nticks + 1
    /\ rmres' = NoCall
    /\ UNCHANGED <<jobs, job_queue, running, workers, status_callbacks, stats_call, locked_calls, notified,
                   failure_history, retry_threads, ret, files, chapters>>

NextRM ==
    \/ \E c \in Chapters : rm_record_failure(c)
    \/ \E m \in ManagerTexts, rc \in 0..MaxRetryInput, c \in Chapters :
          rm_should_retry(m, rc, c)
    \/ \E c \in Chapters \cup {"*"} : rm_clear_failure_history(c)
    \/ HalfHour

SpecRM == Init /\ [][NextRM]_vars

----------------------------------------------------------------------------
(* SpecAnalyze: analyze_failure applied to a job whose error_message is any
   text of at most MaxWords words and whose retry_count is at most
   MaxRetryInput *)

Words == {"not", "Not", "found", "timeout", "memory", "disk", "space", "error"}

RECURSIVE TextsOfLength(_)
TextsOfLength(n) ==
    IF n = 0 THEN {<< >>}
    ELSE {Append(t, w) : t \in TextsOfLength(n - 1), w \in Words}

Texts == {NONE} \cup UNION {TextsOfLength(n) : n \in 0..MaxWords}

InitAnalyze ==
    /\ jobs = << >>
    /\ job_queue = << >>
    /\ running = FALSE
    /\ workers = << >>
    /\ status_callbacks = << >>
    /\ stats_call = NoStats
    /\ locked_calls = NoCalls
    /\ notified = NoNotify
    /\ failure_history = [c \in Chapters |-> << >>]
    /\ retry_threads = EmptyBag
    /\ now = 0
    /\ nticks = 0
    /\ ret = NoCall
    /\ files = {}
    /\ chapters = NoChapters
    /\ \E m \in Texts, rc \in 0..MaxRetryInput :
          rmres = [op |-> "job", error_message |-> m, retry_count |-> rc]

rm_analyze_failure ==
    /\ rmres.op = "job"
    /\ rmres' = [op |-> "analyze", error_message |-> rmres.error_message,
                 retry_count |-> rmres.retry_count,
                 val |-> analyze_failure(rmres.error_message, rmres.retry_count)]
    /\ UNCHANGED <<jobs, job_queue, running, workers, status_callbacks, stats_call, locked_calls, notified,
                   failure_history, retry_threads, now, nticks, ret, files, chapters>>

NextAnalyze == rm_analyze_failure

SpecAnalyze == InitAnalyze /\ [][NextAnalyze]_vars

(* SpecCap: analyze_failure applied to the same texts and to any retry_count
   up to MaxCapInput, past the count at which the backoff reaches max_delay *)
InitCap ==
    /\ jobs = << >>
    /\ job_queue = << >>
    /\ running = FALSE
    /\ workers = << >>
    /\ status_callbacks = << >>
    /\ stats_call = NoStats
    /\ locked_calls = NoCalls
    /\ notified = NoNotify
    /\ failure_history = [c \in Chapters |-> << >>]
    /\ retry_threads = EmptyBag
    /\ now = 0
    /\ nticks = 0
    /\ ret = NoCall
    /\ files = {}
    /\ chapters = NoChapters
    /\ \E m \in Texts, rc \in 0..MaxCapInput :
          rmres = [op |-> "job", error_message |-> m, retry_count |-> rc]

SpecCap == InitCap /\ [][NextAnalyze]_vars

----------------------------------------------------------------------------
(* SpecDelay: _calculate_delay applied to any retry_count up to MaxDelayInput *)

InitDelay ==
    /\ jobs = << >>
    /\ job_queue = << >>
    /\ running = FALSE
    /\ workers = << >>
    /\ status_callbacks = << >>
    /\ stats_call = NoStats
    /\ locked_calls = NoCalls
    /\ notified = NoNotify
    /\ failure_history = [c \in Chapters |-> << >>]
    /\ retry_threads = EmptyBag
    /\ now = 0
    /\ nticks = 0
    /\ ret = NoCall
    /\ files = {}
    /\ chapters = NoChapters
    /\ \E n \in 0..MaxDelayInput : rmres = [op |-> "retry_count", retry_count |-> n]

(* the call returns a delay, or raises *)
rm_calculate_delay ==
    /\ rmres.op = "retry_count"
    /\ rmres' = IF delay_raises(rmres.retry_count)
                THEN [op |-> "delay", retry_count |-> rmres.retry_count,
                      raised |-> "OverflowError", val |-> 0]
                ELSE [op |-> "delay", retry_count |-> rmres.retry_count,
                      raised |-> "", val |-> calculate_delay(rmres.retry_count)]
    /\ UNCHANGED <<jobs, job_queue, running, workers, status_callbacks, stats_call, locked_calls, notified,
                   failure_history, retry_threads, now, nticks, ret, files, chapters>>

NextDelay == rm_calculate_delay

SpecDelay == InitDelay /\ [][NextDelay]_vars

----------------------------------------------------------------------------
(* SpecCleanup: cleanup_temp_files called on a storage root that holds any
   MaxTempFiles or fewer of CleanupFiles, as
   tests/test_encoding_file_management.py calls it *)

CleanupIds == {"ch1", "ch10", "ch2"}
FileNames == {<<"a.mp3">>, <<"ch1", ".mp3">>}

CleanupFiles ==
    {TempFile(b, c, n) : b \in Books, c \in CleanupIds, n \in FileNames}
    \cup {[book |-> b, dir |-> "uploads", name |-> n] : b \in Books, n \in FileNames}

InitCleanup ==
    /\ jobs = << >>
    /\ job_queue = << >>
    /\ running = FALSE
    /\ workers = << >>
    /\ status_callbacks = << >>
    /\ stats_call = NoStats
    /\ locked_calls = NoCalls
    /\ notified = NoNotify
    /\ failure_history = [c \in Chapters |-> << >>]
    /\ retry_threads = EmptyBag
    /\ now = 0
    /\ nticks = 0
    /\ ret = NoCall
    /\ rmres = NoCall
    /\ files \in {fs \in SUBSET CleanupFiles : Cardinality(fs) <= MaxTempFiles}
    /\ chapters = NoChapters

(* one call: the files it found, the files it left and the count it returned *)
fm_cleanup_temp_files(book_id, chapter_id) ==
    /\ rmres = NoCall
    /\ files' = cleanup_temp_files(files, book_id, chapter_id)
    /\ rmres' = [op |-> "cleanup", book_id |-> book_id, chapter_id |-> chapter_id,
                 before |-> files,
                 val |-> Cardinality(cleanup_removed(files, book_id, chapter_id))]
    /\ UNCHANGED <<jobs, job_queue, running, workers, status_callbacks, stats_call, locked_calls, notified,
                   failure_history, retry_threads, now, nticks, ret, chapters>>

NextCleanup == \E b \in Books, c \in CleanupIds : fm_cleanup_temp_files(b, c)

SpecCleanup == InitCleanup /\ [][NextCleanup]_vars

----------------------------------------------------------------------------
(* SpecOld: the queue of SpecRetry with a caller that cancels jobs and one
   that calls cleanup_old_jobs, while hours pass *)

(* cleanup_old_jobs, lines 392-394: the test under the lock *)
old_job(job, max_age_hours) ==
    /\ job.in_jobs
    /\ job.status \in {"completed", "failed", "cancelled"}
    /\ job.created_at < now - max_age_hours * SecondsPerHour

(* cleanup_old_jobs: deletes the old jobs and returns how many they were *)
cleanup_old_jobs(max_age_hours) ==
    LET job_ids_to_remove == {id \in DOMAIN jobs : old_job(jobs[id], max_age_hours)} IN
    /\ jobs' = [id \in DOMAIN jobs |->
                   IF id \in job_ids_to_remove THEN [jobs[id] EXCEPT !.in_jobs = FALSE]
                   ELSE jobs[id]]
    /\ ret' = [op |-> "cleanup_old_jobs", job_id |-> NoJob,
               val |-> Cardinality(job_ids_to_remove),
               max_age_hours |-> max_age_hours,
               removed |-> [id \in job_ids_to_remove |-> jobs[id]]]
    /\ notified' = NoNotify
    /\ UNCHANGED <<job_queue, running, workers, status_callbacks, stats_call, locked_calls, failure_history,
                   retry_threads, now, nticks, rmres, files, chapters>>

(* an hour passes *)
HourPasses ==
    /\ nticks < MaxTicks
    /\ now' = now + SecondsPerHour
    /\ nticks' = nticks + 1
    /\ ret' = NoCall /\ notified' = NoNotify
    /\ UNCHANGED <<jobs, job_queue, running, workers, status_callbacks, stats_call, locked_calls,
                   failure_history, retry_threads, rmres, files, chapters>>

NextOld ==
    \/ Submit(MaxOldJobs, {<<"chA", "bookA", "/in/missing.mp3">>})
    \/ \E id \in DOMAIN jobs : cancel_job(id)
    \/ \E t \in DOMAIN workers : worker_get(t)
    \/ \E t \in DOMAIN workers : process_claim(t)
    \/ \E t \in DOMAIN workers : process_step(t)
    \/ \E r \in BagToSet(retry_threads) : retry_thread_wake(r)
    \/ \E h \in 0..MaxAgeHours : cleanup_old_jobs(h)
    \/ Tick
    \/ HourPasses

SpecOld == InitRetry /\ [][NextOld]_vars

----------------------------------------------------------------------------
(* SpecWork: the started queue and its workers, as tests/test_encoding_queue.py
   runs them: jobs for any chapter, book and input path, on a storage root
   that holds any MaxWorkFiles or fewer of WorkFiles when the queue starts *)

WorkFiles ==
    {TempFile(b, c, <<"a.mp3">>) : b \in Books, c \in Chapters}
    \cup {[book |-> b, dir |-> "media", name |-> <<n, ".m4a">>] :
             b \in Books, n \in {"present", "missing"}}

InitWork ==
    /\ jobs = << >>
    /\ job_queue = << >>
    /\ running = TRUE
    /\ workers = [i \in 1..max_workers |-> IdleWorker]
    /\ status_callbacks = << >>
    /\ stats_call = NoStats
    /\ locked_calls = NoCalls
    /\ notified = NoNotify
    /\ failure_history = [c \in Chapters |-> << >>]
    /\ retry_threads = EmptyBag
    /\ now = 0
    /\ nticks = 0
    /\ ret = NoCall
    /\ rmres = NoCall
    /\ files \in {fs \in SUBSET WorkFiles : Cardinality(fs) <= MaxWorkFiles}
    /\ chapters = NoChapters

NextWork ==
    \/ Submit(MaxWorkJobs, Chapters \X Books \X InputPaths)
    \/ \E t \in DOMAIN workers : worker_get(t)
    \/ \E t \in DOMAIN workers : process_claim(t)
    \/ \E t \in DOMAIN workers : process_step(t)

SpecWork == InitWork /\ [][NextWork]_vars

----------------------------------------------------------------------------
(* SpecSweep: the queue of SpecRetry for jobs of one chapter, with the sweep
   of start_scheduler; the threads are scheduled fairly *)

(* scheduler_loop, lines 302-309: the sweep retries this job *)
sweep_due(job_id) ==
    LET job == jobs[job_id] IN
    /\ jobs_has(job_id)
    /\ job.status = "failed"
    /\ should_retry_automatically(job.error_message, job.retry_count,
                                  job.chapter_id, failure_history, now)
    /\ job.completed_at # NoTime
    /\ now - job.completed_at
          >= analyze_failure(job.error_message, job.retry_count).suggested_delay

(* scheduler_loop, lines 297-314: one look of the sweep at the failed jobs *)
scheduler_sweep ==
    /\ IF \E id \in DOMAIN jobs : sweep_due(id)
       THEN \E id \in {i \in DOMAIN jobs : sweep_due(i)} : retry_job(id, retry_threads)
       ELSE /\ ret' = NoCall /\ notified' = NoNotify
            /\ UNCHANGED <<jobs, job_queue, failure_history, retry_threads>>
    /\ UNCHANGED <<running, workers, status_callbacks, stats_call, locked_calls, now, nticks, rmres, files, chapters>>

NextSweep ==
    \/ Submit(MaxSweepJobs, {<<"chA", "bookA", "/in/missing.mp3">>})
    \/ \E t \in DOMAIN workers : worker_get(t)
    \/ \E t \in DOMAIN workers : process_claim(t)
    \/ \E t \in DOMAIN workers : process_step(t)
    \/ \E r \in BagToSet(retry_threads) : retry_thread_wake(r)
    \/ clear_failure_history("chA")
    \/ Tick
    \/ scheduler_sweep

(* the steps of the threads: workers, retry threads, the scheduler, the clock *)
ThreadStep ==
    \/ \E t \in DOMAIN workers : worker_get(t)
    \/ \E t \in DOMAIN workers : process_claim(t)
    \/ \E t \in DOMAIN workers : process_step(t)
    \/ \E r \in BagToSet(retry_threads) : retry_thread_wake(r)
    \/ Tick
    \/ scheduler_sweep

(* while a thread can take a step, some thread eventually takes one *)
SpecSweep == InitRetry /\ [][NextSweep]_vars /\ WF_vars(ThreadStep)

----------------------------------------------------------------------------
(* SpecDedup: the queue of SpecRetry with all three callers of retry_job: the
   retry threads, the sweep and a caller of POST /jobs/{job_id}/retry *)

NextDedup ==
    \/ Submit(MaxDedupJobs, {<<"chA", "bookA", "/in/missing.mp3">>})
    \/ \E t \in DOMAIN workers : worker_get(t)
    \/ \E t \in DOMAIN workers : process_claim(t)
    \/ \E t \in DOMAIN workers : process_step(t)
    \/ \E r \in BagToSet(retry_threads) : retry_thread_wake(r)
    \/ \E id \in DOMAIN jobs : manual_retry(id)
    \/ scheduler_sweep
    \/ Tick

SpecDedup == InitRetry /\ [][NextDedup]_vars

----------------------------------------------------------------------------
(* SpecQueue: callers submit and cancel jobs while the queue is not started *)

NextQueue ==
    \/ Submit(MaxQueueJobs, {<<"chA", "bookA", "/in/missing.mp3">>})
    \/ \E id \in DOMAIN jobs : cancel_job(id)

SpecQueue == Init /\ [][NextQueue]_vars

----------------------------------------------------------------------------
(* SpecLife: the queue started and stopped by one caller, as
   test_queue_start_stop does, while jobs are submitted and processed *)

(* start(), while fewer than max_starts calls have created workers *)
Start(max_starts) ==
    /\ running \/ Len(workers) < max_starts * max_workers
    /\ start

NextLife ==
    \/ Start(MaxStarts)
    \/ stop_signal
    \/ stop_return
    \/ Submit(MaxLifeJobs, {<<"chA", "bookA", "/in/missing.mp3">>})
    \/ \E t \in DOMAIN workers : worker_get(t)
    \/ \E t \in DOMAIN workers : worker_exit(t)
    \/ \E t \in DOMAIN workers : process_claim(t)
    \/ \E t \in DOMAIN workers : process_step(t)

SpecLife == Init /\ [][NextLife]_vars

(* the steps of the worker threads *)
WorkerStep ==
    \/ \E t \in DOMAIN workers : worker_get(t)
    \/ \E t \in DOMAIN workers : worker_exit(t)
    \/ \E t \in DOMAIN workers : process_claim(t)
    \/ \E t \in DOMAIN workers : process_step(t)

(* SpecServe: SpecLife with fair scheduling of the workers: while a worker
   can take a step, some worker eventually takes one *)
SpecServe == Init /\ [][NextLife]_vars /\ WF_vars(WorkerStep)

----------------------------------------------------------------------------
(* SpecFault: the module's queue as retry_manager.py finds it, with
   status_manager.notify_status_change registered (line 488) and then
   on_job_failure (setup_retry_system); a subscriber of the status manager
   may raise in any notification *)

InitFault ==
    /\ jobs = << >>
    /\ job_queue = << >>
    /\ running = TRUE
    /\ workers = [i \in 1..max_workers |-> IdleWorker]
    /\ status_callbacks = <<"status_manager", "on_job_failure">>
    /\ stats_call = NoStats
    /\ locked_calls = NoCalls
    /\ notified = NoNotify
    /\ failure_history = [c \in Chapters |-> << >>]
    /\ retry_threads = EmptyBag
    /\ now = 0
    /\ nticks = 0
    /\ ret = NoCall
    /\ files = {}
    /\ chapters = NoChapters
    /\ rmres = NoCall

NextFault ==
    \/ Submit(MaxFaultJobs, {"chA"} \X Books \X {"/in/missing.mp3"})
    \/ \E t \in DOMAIN workers : worker_get(t)
    \/ \E t \in DOMAIN workers : process_claim(t)
    \/ \E t \in DOMAIN workers : process_step(t)
    \/ \E r \in BagToSet(retry_threads) : retry_thread_wake(r)
    \/ Tick

SpecFault == InitFault /\ [][NextFault]_vars

----------------------------------------------------------------------------
(* SpecOutage: the queue of SpecWork on an empty storage root, with an entity
   store that is or is not available for each chapter when the queue starts,
   and becomes and stops being available at any time *)

InitOutage ==
    /\ jobs = << >>
    /\ job_queue = << >>
    /\ running = TRUE
    /\ workers = [i \in 1..max_workers |-> IdleWorker]
    /\ status_callbacks = << >>
    /\ stats_call = NoStats
    /\ locked_calls = NoCalls
    /\ notified = NoNotify
    /\ failure_history = [c \in Chapters |-> << >>]
    /\ retry_threads = EmptyBag
    /\ now = 0
    /\ nticks = 0
    /\ ret = NoCall
    /\ rmres = NoCall
    /\ files = {}
    /\ \E down \in SUBSET Chapters :
          chapters = [c \in Chapters |->
                         [NoChapters[c] EXCEPT !.available = c \notin down]]

(* the store stops or starts answering for a chapter *)
store_outage(chapter_id) ==
    /\ chapters' = [chapters EXCEPT ![chapter_id].available = ~@]
    /\ ret' = NoCall /\ notified' = NoNotify
    /\ UNCHANGED <<jobs, job_queue, running, workers, status_callbacks, stats_call, locked_calls,
                   failure_history, retry_threads, now, nticks, rmres, files>>

NextOutage ==
    \/ Submit(MaxOutageJobs, Chapters \X Books \X InputPaths)
    \/ \E t \in DOMAIN workers : worker_get(t)
    \/ \E t \in DOMAIN workers : process_claim(t)
    \/ \E t \in DOMAIN workers : process_step(t)
    \/ \E c \in Chapters : store_outage(c)

SpecOutage == InitOutage /\ [][NextOutage]_vars

----------------------------------------------------------------------------
(* SpecTimeout: the queue of SpecRetry for jobs whose input the transcoder
   cannot encode in time *)

NextTimeout ==
    \/ Submit(MaxTimeoutJobs, Chapters \X {"bookA"} \X SlowInputs)
    \/ \E t \in DOMAIN workers : worker_get(t)
    \/ \E t \in DOMAIN workers : process_claim(t)
    \/ \E t \in DOMAIN workers : process_step(t)
    \/ \E r \in BagToSet(retry_threads) : retry_thread_wake(r)
    \/ \E c \in Chapters \cup {"*"} : clear_failure_history(c)
    \/ Tick

SpecTimeout == InitRetry /\ [][NextTimeout]_vars

----------------------------------------------------------------------------
(* SpecStats: get_queue_stats called while the workers run. The call holds
   self.lock from its first line to its return, so no locked section
   (submit_job, cancel_job, retry_job, the claim of lines 211-218) runs
   meanwhile; the workers' steps after the claim take no lock. *)

(* class EncodingStatus, in definition order: the order of the counting loop *)
EncodingStatus == <<"pending", "processing", "completed", "failed", "cancelled">>

(* get_queue_stats, line 360: the jobs that have `status` when it is counted *)
status_count(status) ==
    Cardinality({id \in DOMAIN jobs : jobs[id].in_jobs /\ jobs[id].status = status})

(* get_queue_stats, line 376: len(self.jobs) *)
total_jobs == Cardinality({id \in DOMAIN jobs : jobs[id].in_jobs})

(* a thread may enter `with self.lock` *)
lock_free == stats_call.pc # "counting"

(* get_queue_stats, lines 357-358: the lock is taken *)
stats_begin ==
    /\ lock_free
    /\ stats_call' = [pc |-> "counting", counts |-> << >>, total_jobs |-> 0]
    /\ ret' = NoCall /\ notified' = NoNotify
    /\ UNCHANGED <<jobs, job_queue, running, workers, status_callbacks,
                   failure_history, retry_threads, now, nticks, rmres, files,
                   chapters, locked_calls>>

(* get_queue_stats, lines 359-360: one turn of the loop over EncodingStatus *)
stats_count ==
    /\ stats_call.pc = "counting"
    /\ Len(stats_call.counts) < Len(EncodingStatus)
    /\ stats_call' =
          [stats_call EXCEPT !.counts =
              Append(@, status_count(EncodingStatus[Len(@) + 1]))]
    /\ ret' = NoCall /\ notified' = NoNotify
    /\ UNCHANGED <<jobs, job_queue, running, workers, status_callbacks,
                   failure_history, retry_threads, now, nticks, rmres, files,
                   chapters, locked_calls>>

(* get_queue_stats, lines 375-381: the result is built and the lock released *)
stats_return ==
    /\ stats_call.pc = "counting"
    /\ Len(stats_call.counts) = Len(EncodingStatus)
    /\ stats_call' = [stats_call EXCEPT !.pc = "returned",
                                        !.total_jobs = total_jobs]
    /\ ret' = NoCall /\ notified' = NoNotify
    /\ UNCHANGED <<jobs, job_queue, running, workers, status_callbacks,
                   failure_history, retry_threads, now, nticks, rmres, files,
                   chapters, locked_calls>>

(* the workers started, no callback registered, nothing on disk *)
InitStats == InitWork /\ files = {}

NextStats ==
    \/ lock_free /\ Submit(MaxStatsJobs, {<<"chA", "bookA", "/in/missing.mp3">>})
    \/ lock_free /\ \E id \in DOMAIN jobs : cancel_job(id)
    \/ lock_free /\ \E id \in DOMAIN jobs : manual_retry(id)
    \/ \E t \in DOMAIN workers : worker_get(t)
    \/ lock_free /\ \E t \in DOMAIN workers : process_claim(t)
    \/ \E t \in DOMAIN workers : process_step(t)
    \/ stats_begin
    \/ stats_count
    \/ stats_return

SpecStats == InitStats /\ [][NextStats]_vars

----------------------------------------------------------------------------
(* SpecFM: the operations of EncodingFileManager on a filesystem where any
   set of system calls fails with OSError. os.path.exists and os.walk report
   an error as "absent", they do not raise. *)

(* the calls of file_manager.py that raise OSError *)
SysCalls == {"makedirs", "listdir", "remove", "getsize", "getmtime", "move"}

FmOperations ==
    {"ensure_directories", "validate_file_integrity", "cleanup_temp_files",
     "cleanup_old_temp_files", "archive_original_file", "restore_from_archive",
     "get_storage_stats", "get_disk_usage(book_id)", "get_disk_usage()"}

(* the calls an operation makes outside every try block *)
unguarded_calls(op) ==
    CASE op = "ensure_directories" -> {"makedirs"}           \* line 67
      [] op = "get_disk_usage()" -> {"listdir"}              \* line 382
      [] OTHER -> {}

(* the calls an operation makes inside a try block with `except Exception`
   (or, in _get_directory_size, `except (OSError, FileNotFoundError)`) *)
guarded_calls(op) ==
    CASE op = "validate_file_integrity" -> {"getsize"}
      [] op = "cleanup_temp_files" -> {"listdir", "remove"}
      [] op = "cleanup_old_temp_files" -> {"listdir", "getmtime", "remove"}
      [] op = "archive_original_file" -> {"makedirs", "move"}
      [] op = "restore_from_archive" -> {"makedirs", "move"}
      [] op = "get_storage_stats" -> {"listdir", "getsize"}
      [] op = "get_disk_usage(book_id)" -> {"getsize"}
      [] op = "get_disk_usage()" -> {"getsize"}
      [] OTHER -> {}

(* one call of the operation: `raised` when an OSError leaves it, `caught`
   when one was handled inside it *)
fm_call(op, failing) ==
    /\ rmres' = [op |-> op, job_id |-> NoJob,
                 val |-> [failing |-> failing,
                          raised |-> unguarded_calls(op) \cap failing # {},
                          caught |-> /\ unguarded_calls(op) \cap failing = {}
                                     /\ guarded_calls(op) \cap failing # {}]]
    /\ ret' = NoCall /\ notified' = NoNotify
    /\ UNCHANGED <<jobs, job_queue, running, workers, status_callbacks,
                   stats_call, locked_calls, failure_history, retry_threads, now, nticks,
                   files, chapters>>

NextFM == \E op \in FmOperations, failing \in SUBSET SysCalls : fm_call(op, failing)

SpecFM == Init /\ [][NextFM]_vars

----------------------------------------------------------------------------
(* SpecLocks: the queue of SpecFault with its three locks. cancel_job and
   retry_job run as the code does: they take self.lock, test and write, call
   the registered callbacks one after the other while they hold the lock, and
   release it at the return. A section that takes one lock and calls nothing
   that takes another (submit_job, the claim, record_failure and
   should_retry_automatically under a worker's notification, the sweep,
   clear_failure_history) stays one step, taken when its lock is free.
   `notified` records the notifications of the workers' steps alone. *)

(* EncodingQueue.lock (line 74), EncodingStatusManager.lock (line 439),
   EncodingRetryManager.lock (retry_manager.py line 52): threading.Lock *)
queue_lock == "queue.lock"
status_manager_lock == "status_manager.lock"
retry_manager_lock == "retry_manager.lock"

(* no caller holds the lock *)
lock_is_free(l) ==
    \A c \in Callers :
        \A i \in DOMAIN locked_calls[c].held : locked_calls[c].held[i] # l

(* the locks the notification of a worker's step takes, one at a time:
   status_manager.notify_status_change (line 474), and record_failure and
   should_retry_automatically when the job is FAILED *)
notification_locks_free(t) ==
    workers[t].pc \in {"L220", "L238", "L247", "L254", "L314"} =>
        /\ In(<<"status_manager">>, status_callbacks)
              => lock_is_free(status_manager_lock)
        /\ (/\ In(<<"on_job_failure">>, status_callbacks)
            /\ on_job_failure(jobs[workers[t].job_id]))
              => lock_is_free(retry_manager_lock)

(* cancel_job line 169, retry_job line 179: `with self.lock:` *)
call_enter(c, op, job_id) ==
    /\ locked_calls[c].pc = "none"
    /\ lock_is_free(queue_lock)
    /\ locked_calls' =
          [locked_calls EXCEPT ![c] =
              [NoLockedCall EXCEPT !.op = op, !.job_id = job_id,
                                   !.pc = "section", !.held = <<queue_lock>>]]
    /\ ret' = NoCall /\ notified' = NoNotify

(* a caller of the API calls cancel_job or retry_job *)
api_call(op, job_id) ==
    /\ call_enter("api", op, job_id)
    /\ UNCHANGED <<jobs, job_queue, running, workers, status_callbacks, stats_call,
                   failure_history, retry_threads, now, nticks, rmres, files,
                   chapters>>

(* schedule_retry.retry_job: a retry thread has slept its delay and calls
   encoding_queue.retry_job *)
retry_thread_call(r) ==
    /\ now >= r.due
    /\ call_enter("retry_thread", "retry", r.job_id)
    /\ retry_threads' = retry_threads (-) SetToBag({r})
    /\ UNCHANGED <<jobs, job_queue, running, workers, status_callbacks, stats_call,
                   failure_history, now, nticks, rmres, files, chapters>>

(* cancel_job lines 170-174, retry_job lines 180-188, the callbacks of
   _notify_status_change (lines 94-98) and the return: the call's next step.
   At "section" the test and the writes; at "callbacks" the next registered
   callback is called, which takes its lock if it has one; at "L474"
   notify_status_change leaves its locked section; at "L167" record_failure
   leaves its own and handle_job_failure schedules the retry; at "return"
   self.lock is released. *)
call_step(c) ==
    LET call == locked_calls[c]
        id == call.job_id
        at(pc) == [call EXCEPT !.pc = pc]
        next_callback == [call EXCEPT !.pc = "callbacks", !.callback = @ + 1,
                                      !.held = <<queue_lock>>]
        quiet == UNCHANGED <<jobs, job_queue, failure_history, retry_threads>>
    IN
    /\ call.pc # "none"
    /\ CASE call.pc = "section" ->
              IF call.op = "cancel"
              THEN IF cancel_allowed(id)
                   THEN /\ jobs' = [jobs EXCEPT ![id].status = "cancelled"]
                        /\ locked_calls' = [locked_calls EXCEPT ![c] =
                              [next_callback EXCEPT !.val = TRUE]]
                        /\ UNCHANGED <<job_queue, failure_history, retry_threads>>
                   ELSE /\ locked_calls' = [locked_calls EXCEPT ![c] = at("return")]
                        /\ quiet
              ELSE IF retry_allowed(id)
                   THEN /\ jobs' = [jobs EXCEPT ![id] = retried(@)]
                        /\ job_queue' = requeued(id)
                        /\ locked_calls' = [locked_calls EXCEPT ![c] =
                              [next_callback EXCEPT !.val = TRUE]]
                        /\ UNCHANGED <<failure_history, retry_threads>>
                   ELSE /\ locked_calls' = [locked_calls EXCEPT ![c] = at("return")]
                        /\ quiet
         [] call.pc = "callbacks" /\ call.callback > Len(status_callbacks) ->
              /\ locked_calls' = [locked_calls EXCEPT ![c] = at("return")]
              /\ quiet
         [] call.pc = "callbacks" /\ call.callback <= Len(status_callbacks) ->
              CASE status_callbacks[call.callback] = "status_manager" ->
                     /\ lock_is_free(status_manager_lock)
                     /\ locked_calls' = [locked_calls EXCEPT ![c] =
                           [call EXCEPT !.pc = "L474",
                                        !.held = Append(@, status_manager_lock)]]
                     /\ quiet
                [] /\ status_callbacks[call.callback] = "on_job_failure"
                   /\ on_job_failure(jobs[id]) ->
                     /\ lock_is_free(retry_manager_lock)
                     /\ failure_history' =
                           record_failure(failure_history, jobs[id].chapter_id, now)
                     /\ locked_calls' = [locked_calls EXCEPT ![c] =
                           [call EXCEPT !.pc = "L167",
                                        !.held = Append(@, retry_manager_lock)]]
                     /\ UNCHANGED <<jobs, job_queue, retry_threads>>
                [] OTHER ->
                     /\ locked_calls' = [locked_calls EXCEPT ![c] = next_callback]
                     /\ quiet
         [] call.pc = "L474" ->
              /\ locked_calls' = [locked_calls EXCEPT ![c] = next_callback]
              /\ quiet
         [] call.pc = "L167" ->
              /\ retry_threads' =
                    IF analyze_failure(jobs[id].error_message,
                                       jobs[id].retry_count).is_retryable
                    THEN schedule_retry(id, jobs[id], failure_history, retry_threads)
                    ELSE retry_threads
              /\ locked_calls' = [locked_calls EXCEPT ![c] = next_callback]
              /\ UNCHANGED <<jobs, job_queue, failure_history>>
         [] call.pc = "return" ->
              /\ locked_calls' = [locked_calls EXCEPT ![c] = NoLockedCall]
              /\ quiet
    /\ ret' = IF call.pc = "return"
              THEN [op |-> call.op, job_id |-> id, val |-> call.val]
              ELSE NoCall
    /\ notified' = NoNotify
    /\ UNCHANGED <<running, workers, status_callbacks, stats_call, now, nticks,
                   rmres, files, chapters>>

NextLocks ==
    \/ lock_is_free(queue_lock)
          /\ Submit(MaxLockJobs, {<<"chA", "bookA", "/in/missing.mp3">>})
    \/ \E op \in {"cancel", "retry"}, id \in DOMAIN jobs : api_call(op, id)
    \/ \E r \in BagToSet(retry_threads) : retry_thread_call(r)
    \/ \E c \in Callers : call_step(c)
    \/ \E t \in DOMAIN workers : worker_get(t)
    \/ \E t \in DOMAIN workers : lock_is_free(queue_lock) /\ process_claim(t)
    \/ \E t \in DOMAIN workers : notification_locks_free(t) /\ process_step(t)
    \/ lock_is_free(retry_manager_lock) /\ clear_failure_history("chA")
    \/ lock_is_free(queue_lock) /\ lock_is_free(retry_manager_lock) /\ scheduler_sweep
    \/ nticks < MaxLockTicks /\ Tick

(* a call that is inside cancel_job or retry_job eventually takes its next step *)
SpecLocks == InitFault /\ [][NextLocks]_vars /\ WF_vars(\E c \in Callers : call_step(c))

----------------------------------------------------------------------------
(* Claims about the queue *)

Terminal == {"completed", "failed", "cancelled"}

(* how often an id occurs in a queue *)
Occurrences(q, id) == Cardinality({i \in 1..Len(q) : q[i] = id})

(* what a step in which cancel_job returns does *)
C1_CancelStep ==
    ret'.op = "cancel" =>
        LET id == ret'.job_id IN
        /\ ret'.val = (id \in DOMAIN jobs /\ jobs[id].status = "pending")
        /\ ret'.val => jobs' = [jobs EXCEPT ![id].status = "cancelled"]
        /\ ~ret'.val => jobs' = jobs

(* C1: in every interleaving of callers and workers, cancel_job returns true
   exactly when the job exists and is Pending when the call holds the lock, and
   then sets its status to Cancelled (and nothing else); for an unknown id or a
   job in any other status it returns false and changes no job field. *)
C1_CancelJob == [][C1_CancelStep]_vars

(* a cancel_job that succeeded while a worker was processing another job *)
C1_Witness ==
    /\ ret.op = "cancel" /\ ret.val
    /\ jobs[ret.job_id].status = "cancelled"
    /\ \E id \in DOMAIN jobs : jobs[id].status = "processing"

(* C2: after a successful retry_job the job is Pending with retry_count one
   higher, no error_message and its id enqueued once, and under every
   interleaving with the worker that produced the failure it stays Pending
   with no error_message until a worker claims it: a Pending job carries no
   error_message. *)
C2_PendingHasNoError ==
    \A id \in DOMAIN jobs :
        jobs[id].status = "pending" => jobs[id].error_message = NONE

(* what a step in which retry_job returns does *)
C3_RetryStep ==
    ret'.op = "retry" =>
        LET id == ret'.job_id IN
        /\ ret'.val = (/\ id \in DOMAIN jobs
                       /\ jobs[id].status = "failed"
                       /\ jobs[id].retry_count < job_max_retries)
        /\ ~ret'.val => /\ jobs' = jobs
                        /\ job_queue' = job_queue
                        /\ notified' = NoNotify

(* C3: retry_job returns true exactly when the job exists, is Failed and has
   retry_count < max_retries; in every other case it returns false, enqueues
   nothing, fires no notification and leaves every job field unchanged. *)
C3_RetryRefused == [][C3_RetryStep]_vars

(* a retry_job refused because the Failed job has used up its retries *)
C3_Witness ==
    /\ ret.op = "retry" /\ ~ret.val
    /\ ret.job_id \in DOMAIN jobs
    /\ jobs[ret.job_id].status = "failed"
    /\ jobs[ret.job_id].retry_count = job_max_retries

(* the permitted status changes *)
C4_Transitions ==
    { <<"pending", "processing">>, <<"pending", "cancelled">>,
      <<"processing", "completed">>, <<"processing", "failed">>,
      <<"failed", "pending">> }

C4_StatusStep ==
    \A id \in DOMAIN jobs :
        /\ id \in DOMAIN jobs'
        /\ jobs'[id].status # jobs[id].status =>
              /\ <<jobs[id].status, jobs'[id].status>> \in C4_Transitions
              /\ jobs[id].status = "failed" =>
                    ret' = [op |-> "retry", job_id |-> id, val |-> TRUE]

(* C4: a job's status changes only along Pending->Processing,
   Pending->Cancelled, Processing->Completed, Processing->Failed and
   Failed->Pending, the last only in a retry_job that returns true; no job is
   dropped, and Completed and Cancelled jobs never change status again. *)
C4_StatusTransitions == [][C4_StatusStep]_vars

(* a job that failed, was retried and was then cancelled before a worker took it *)
C4_Witness ==
    \E id \in DOMAIN jobs :
        /\ jobs[id].status = "cancelled"
        /\ jobs[id].retry_count > 0

(* progress and status of every job, in a state and over a step *)
C5_ProgressState ==
    \A id \in DOMAIN jobs :
        /\ jobs[id].progress \in 0..100
        /\ jobs[id].status = "cancelled" => jobs[id].progress = 0
        /\ jobs[id].status = "completed" <=> jobs[id].progress = 100

C5_ProgressStep ==
    \A id \in DOMAIN jobs :
        /\ jobs[id].status \notin Terminal => jobs'[id].progress >= jobs[id].progress
        /\ jobs'[id].status = "failed" => jobs'[id].progress = jobs[id].progress

(* C5: progress stays within [0, 1]; a Cancelled job has progress 0, a
   Completed job has progress 1 and no other job has; while a job is Pending
   or Processing its progress never decreases, and a job that fails keeps the
   checkpoint it had reached for as long as it is Failed. *)
C5_Progress == []C5_ProgressState /\ [][C5_ProgressStep]_vars

(* a job that failed again after a retry and holds the first checkpoint *)
C5_Witness ==
    \E id \in DOMAIN jobs :
        /\ jobs[id].status = "failed"
        /\ jobs[id].retry_count > 0
        /\ jobs[id].progress = 10

(* submit_job can be called, and what a step in which it returns does *)
C6_Accepted ==
    ENABLED (\E c \in Chapters, b \in Books, p \in InputPaths : submit_job(c, b, p))

C6_SubmitStep ==
    ret'.op = "submit" =>
        LET id == ret'.job_id IN
        /\ ret'.val
        /\ id \notin DOMAIN jobs
        /\ DOMAIN jobs' = DOMAIN jobs \cup {id}
        /\ jobs'[id].status = "pending"
        /\ jobs'[id].progress = 0
        /\ jobs'[id].retry_count = 0
        /\ jobs'[id].error_message = NONE
        /\ job_queue' = Append(job_queue, id)
        /\ Occurrences(job_queue', id) = 1
        /\ \A o \in DOMAIN jobs : jobs'[o] = jobs[o]

(* C6: submit_job is accepted in every state, started or not; it returns an id
   no job carried, records under it a job that is Pending with progress 0,
   retry_count 0 and no error, appends the id to the queue once and changes
   nothing else of the queue or of any other job. *)
C6_SubmitJob == []C6_Accepted /\ [][C6_SubmitStep]_vars

(* a second submission, made before the queue was started *)
C6_Witness ==
    /\ ret.op = "submit"
    /\ ~running
    /\ Cardinality(DOMAIN jobs) = 2
    /\ Occurrences(job_queue, ret.job_id) = 1

----------------------------------------------------------------------------
(* Claims about the retry system *)

(* a retry thread of the job is sleeping or about to call retry_job *)
RetryPending(id) == \E r \in BagToSet(retry_threads) : r.job_id = id

(* the job is the only one submitted for its chapter *)
AloneInChapter(id) ==
    \A o \in DOMAIN jobs : jobs[o].chapter_id = jobs[id].chapter_id => o = id

(* C7: a job submitted with an input path at which no file exists (and whose
   directories can be created) fails with an error message containing
   "not found", which analyze_failure classifies Permanent and non-retryable
   and for which should_retry_automatically is false; the job is never
   re-queued automatically. *)
C7_MissingInputIsPermanent ==
    \A id \in DOMAIN jobs :
        LET job == jobs[id] IN
        /\ job.input_path \notin ExistingFiles
        /\ job.book_id \notin UnwritableBooks
        => /\ job.retry_count = 0
           /\ ~RetryPending(id)
           /\ (job.status = "failed" /\ job.error_message # NONE) =>
                 /\ In(<<"not", "found">>, Lower(job.error_message))
                 /\ analyze_failure(job.error_message, job.retry_count).failure_type
                        = "permanent"
                 /\ ~analyze_failure(job.error_message, job.retry_count).is_retryable
                 /\ ~should_retry_automatically(job.error_message, job.retry_count,
                                                job.chapter_id, failure_history, now)

(* C8 as stated: with max_retries 3 and failure_threshold 5, once the fourth
   failure (with a temporary cue such as "timeout") of the one job of a chapter
   has been recorded within the hour, the circuit breaker is tripped: the
   chapter's failures of the last hour have reached failure_threshold. *)
C8_FourthFailureTripsBreaker ==
    \A id \in DOMAIN jobs :
        /\ AloneInChapter(id)
        /\ notified.job_id = id /\ notified.status = "failed"
        /\ jobs[id].retry_count = policy_max_retries
        /\ analyze_failure(jobs[id].error_message, jobs[id].retry_count).error_category
               = "temporary"
        /\ Len(failure_history[jobs[id].chapter_id]) = policy_max_retries + 1
        => Len(recent_failures(failure_history, jobs[id].chapter_id, now))
               >= failure_threshold

(* the state in which the failure of the one job of a chapter has been handled *)
C8_RetryLimitState ==
    \A id \in DOMAIN jobs :
        LET job == jobs[id]
            recent == Len(recent_failures(failure_history, job.chapter_id, now))
        IN
        /\ AloneInChapter(id)
        /\ notified.job_id = id /\ notified.status = "failed"
        /\ job.status = "failed"
        => /\ recent <= job.retry_count + 1
           /\ recent < failure_threshold
           /\ job.retry_count < policy_max_retries => RetryPending(id)
           /\ job.retry_count >= policy_max_retries =>
                 /\ ~RetryPending(id)
                 /\ ~should_retry_automatically(job.error_message, job.retry_count,
                        job.chapter_id, cleared(failure_history, "*"), now)

(* a Failed job that has used its retries stays as it is, whatever happens
   to the failure history *)
C8_RetryLimitStep ==
    \A id \in DOMAIN jobs :
        /\ jobs[id].status = "failed"
        /\ jobs[id].error_message # NONE
        /\ jobs[id].retry_count >= policy_max_retries
        => /\ jobs'[id] = jobs[id]
           /\ ~RetryPending(id)'

(* C8, amended: when the failure of the one job of a chapter has been handled,
   the chapter has at most retry_count + 1 <= 4 recent failures, fewer than
   failure_threshold = 5, so the breaker is not tripped; after the first,
   second and third failure (retry_count < 3) an automatic retry is scheduled;
   after the fourth (retry_count = 3) none is, and none would be with the
   failure history cleared: the retry limit suppresses it. *)
C8_RetryLimitSuppresses == []C8_RetryLimitState /\ [][C8_RetryLimitStep]_vars

(* the fourth failure, with a temporary cue, of a job has just been handled:
   four failures are on record within the hour and no retry is scheduled *)
C8_Witness ==
    \E id \in DOMAIN jobs :
        /\ notified.job_id = id /\ notified.status = "failed"
        /\ jobs[id].retry_count = policy_max_retries
        /\ analyze_failure(jobs[id].error_message, jobs[id].retry_count).error_category
               = "temporary"
        /\ Len(recent_failures(failure_history, jobs[id].chapter_id, now)) = 4
        /\ ~RetryPending(id)

(* the failures of a chapter less than an hour old *)
C9_FailuresWithinHour(chapter_id) ==
    Cardinality({i \in DOMAIN failure_history[chapter_id] :
                    failure_history[chapter_id][i] > now - 3600})

(* C9: should_retry_automatically(job) is true exactly when job.retry_count is
   below the policy's max_retries, analyze_failure(job) is retryable and fewer
   than failure_threshold failures of the job's chapter are less than an hour
   old; failures of other chapters and older failures do not count. *)
C9_ShouldRetry ==
    rmres.op = "should_retry" =>
        rmres.val = (/\ rmres.retry_count < policy_max_retries
                     /\ analyze_failure(rmres.error_message, rmres.retry_count).is_retryable
                     /\ C9_FailuresWithinHour(rmres.chapter_id) < failure_threshold)

(* a retry allowed although the chapter has failure_threshold failures on
   record (all older than an hour) and the other chapter has recent ones *)
C9_Witness ==
    /\ rmres.op = "should_retry" /\ rmres.val
    /\ Len(failure_history[rmres.chapter_id]) >= failure_threshold
    /\ \E c \in Chapters \ {rmres.chapter_id} : C9_FailuresWithinHour(c) > 0

(* the cue lists, the search for a cue, and the backoff delay *)
C10_PermanentCues ==
    { <<"not", "found">>, <<"permission", "denied">>, <<"invalid", "format">>,
      <<"corrupted">>, <<"unsupported">>, <<"codec", "not", "found">> }

C10_RecoverableCues == { <<"disk", "space">>, <<"memory">>, <<"resource">>, <<"quota">> }

C10_TemporaryCues ==
    { <<"timeout">>, <<"network">>, <<"connection">>, <<"temporary">>,
      <<"busy">>, <<"locked">> }

C10_Has(cues, text) ==
    LET t == IF text = NONE THEN << >> ELSE Lower(text) IN
    \E cue \in cues : \E i \in 1..Len(t) :
        i + Len(cue) - 1 <= Len(t) /\ SubSeq(t, i, i + Len(cue) - 1) = cue

C10_Backoff(retry_count) ==
    LET d == base_delay * backoff_multiplier ^ retry_count IN
    IF d > max_delay THEN max_delay ELSE d

(* C10: analyze_failure goes by ordered cue lists: a text with a permanent cue
   is Permanent, not retryable, delay 0, whatever else it contains; otherwise
   one with a recoverable cue is Recoverable, retryable, twice the backoff
   delay; otherwise one with a temporary cue is Temporary, retryable, the
   backoff delay; a text with no cue is Temporary, retryable exactly while
   retry_count < max_retries. *)
C10_AnalyzeFailure ==
    rmres.op = "analyze" =>
        LET text == rmres.error_message
            rc == rmres.retry_count
            a == rmres.val
        IN
        IF C10_Has(C10_PermanentCues, text)
        THEN a.failure_type = "permanent" /\ ~a.is_retryable /\ a.suggested_delay = 0
        ELSE IF C10_Has(C10_RecoverableCues, text)
        THEN /\ a.failure_type = "recoverable" /\ a.is_retryable
             /\ a.suggested_delay = 2 * C10_Backoff(rc)
        ELSE IF C10_Has(C10_TemporaryCues, text)
        THEN /\ a.failure_type = "temporary" /\ a.is_retryable
             /\ a.suggested_delay = C10_Backoff(rc)
        ELSE /\ a.failure_type = "temporary"
             /\ a.is_retryable = (rc < policy_max_retries)

(* a text with a permanent, a recoverable and no temporary cue, in capitals,
   of a job with retries left, classified Permanent *)
C10_Witness ==
    /\ rmres.op = "analyze"
    /\ rmres.error_message = <<"memory", "Not", "found">>
    /\ rmres.retry_count = 0
    /\ rmres.val.failure_type = "permanent"

----------------------------------------------------------------------------
(* Claims about the backoff delay *)

(* min(base_delay * backoff_multiplier ^ n, max_delay), the power taken only
   as far as the integers of the model checker reach *)
C11_Min(n) ==
    IF \E k \in 0..(IF n < 30 THEN n ELSE 30) :
           base_delay * backoff_multiplier ^ k >= max_delay
    THEN max_delay
    ELSE base_delay * backoff_multiplier ^ n

(* C11: for every retry count n >= 0, _calculate_delay(n) returns
   min(base_delay * backoff_multiplier ^ n, max_delay): base_delay at n = 0,
   never more than max_delay, and no less than _calculate_delay(n - 1). *)
C11_CalculateDelay ==
    rmres.op = "delay" =>
        /\ rmres.raised = ""
        /\ rmres.val = C11_Min(rmres.retry_count)
        /\ rmres.val <= max_delay
        /\ rmres.retry_count = 0 => rmres.val = base_delay
        /\ rmres.retry_count > 0 => calculate_delay(rmres.retry_count - 1) <= rmres.val

----------------------------------------------------------------------------
(* Claims about the files and the chapter store *)

(* the temp files of a chapter: those get_file_paths names for it *)
C12_TempFilesOf(fs, book_id, chapter_id) ==
    {f \in fs : \E n \in FileNames : f = TempFile(book_id, chapter_id, n)}

(* C12: cleanup_temp_files(book, A) removes exactly the temp files of A,
   returns how many it removed, and leaves every temp file of every other
   chapter B and every file outside the book's temp directory in place *)
C12_CleanupTempFiles ==
    rmres.op = "cleanup" =>
        LET before == rmres.before
            mine == C12_TempFilesOf(before, rmres.book_id, rmres.chapter_id)
        IN  /\ files = before \ mine
            /\ rmres.val = Cardinality(mine)
            /\ \A B \in CleanupIds \ {rmres.chapter_id} :
                   C12_TempFilesOf(before, rmres.book_id, B) \subseteq files
            /\ \A f \in before :
                   (f.book # rmres.book_id \/ f.dir # "temp") => f \in files

(* C13: cleanup_old_jobs removes only jobs that are Completed, Cancelled or
   Failed with no retry left, and older than max_age_hours; it returns how
   many it removed; a removed job is never Pending or Processing again *)
C13_CleanupOldJobs ==
    /\ ret.op = "cleanup_old_jobs" =>
          /\ ret.val = Cardinality(DOMAIN ret.removed)
          /\ \A id \in DOMAIN ret.removed :
                LET job == ret.removed[id] IN
                /\ \/ job.status \in {"completed", "cancelled"}
                   \/ job.status = "failed" /\ job.retry_count >= job_max_retries
                /\ job.created_at < now - ret.max_age_hours * SecondsPerHour
    /\ \A id \in DOMAIN jobs :
          ~jobs[id].in_jobs => jobs[id].status \in {"completed", "failed", "cancelled"}

(* the input file exists and the book's directories can be made *)
C14_Prepared(job) ==
    job.input_path \in ExistingFiles /\ job.book_id \notin UnwritableBooks

(* the jobs of a chapter that ended Completed *)
C14_CompletedOf(chapter_id) ==
    {id \in DOMAIN jobs : /\ jobs[id].chapter_id = chapter_id
                          /\ jobs[id].status = "completed"
                          /\ jobs[id].progress = 100}

(* C14: a job whose input file exists is handed to the transcoder (it fails
   for no NameError), and when the transcoder reports success and the output
   passes validation the job ends Completed with progress 1.0, its chapter
   marked processing-completed once for it and its temp files removed *)
C14_SuccessCompletes ==
    \A t \in DOMAIN workers :
        LET w == workers[t]
            job == jobs[w.job_id]
        IN  /\ (w.pc \in {"L299", "L300", "L303"} /\ C14_Prepared(job))
                   => w.exc # NameErrorText
            /\ (w.pc = "L314" /\ w.result.success /\ w.exc = NONE)
                   => /\ job.status = "completed"
                      /\ job.progress = 100
                      /\ chapters[job.chapter_id].status = "ready"
                      /\ chapters[job.chapter_id].marked_completed
                            = Cardinality(C14_CompletedOf(job.chapter_id))
                      /\ cleanup_removed(files, job.book_id, job.chapter_id) = {}

(* the jobs of a chapter that ended Failed, the chapter store updated *)
C15_FailedOf(chapter_id) ==
    {id \in DOMAIN jobs :
        /\ jobs[id].chapter_id = chapter_id
        /\ jobs[id].status = "failed"
        /\ \A t \in DOMAIN workers :
              workers[t].job_id = id => workers[t].pc \notin {"L283", "L300", "L303"}}

(* C15: when a step of _process_job has failed, the job ends Failed with the
   captured error as its error_message (the transcoder's own error text when
   the transcoder reported the failure), its chapter is marked error once for
   it, with that message, and no file is left at the job's output path *)
C15_FailureFails ==
    \A t \in DOMAIN workers :
        LET w == workers[t]
            job == jobs[w.job_id]
        IN  (w.pc = "L314" /\ (w.exc # NONE \/ ~w.result.success)) =>
                /\ job.status = "failed"
                /\ job.error_message = IF w.exc # NONE THEN ProcessingError(w.exc)
                                        ELSE w.result.error
                /\ chapters[job.chapter_id].status = "error"
                /\ chapters[job.chapter_id].marked_error
                      = Cardinality(C15_FailedOf(job.chapter_id))
                /\ AloneInChapter(w.job_id) =>
                      chapters[job.chapter_id].error_message = job.error_message
                /\ output_path(job) \notin files

----------------------------------------------------------------------------
(* Claims about the scheduler and the workers *)

(* a Failed job that may be retried automatically, that no worker still
   handles and for which no retry thread sleeps *)
C16_Stranded(id) ==
    /\ jobs_has(id)
    /\ jobs[id].status = "failed"
    /\ should_retry_automatically(jobs[id].error_message, jobs[id].retry_count,
                                  jobs[id].chapter_id, failure_history, now)
    /\ ~RetryPending(id)
    /\ \A t \in DOMAIN workers : workers[t].job_id # id

(* C16: while the scheduler runs, no Failed job that is eligible for an
   automatic retry is left stranded, even if no retry thread was started for
   it: again and again, no such job is waiting *)
C16_SweepRetries ==
    []<>(\A id \in DOMAIN jobs : ~C16_Stranded(id))

(* a worker's except branch marks the job Failed (line 299) *)
C17_FailureStep(id) ==
    \E t \in DOMAIN workers :
        /\ workers[t].job_id = id
        /\ workers[t].pc = "L299"
        /\ workers'[t].pc = "L300"

C17_Step ==
    \A id \in DOMAIN jobs :
        /\ (ret'.op = "retry" /\ ret'.job_id = id /\ ret'.val) =>
              /\ jobs[id].status = "failed"
              /\ jobs'[id].status = "pending"
              /\ jobs'[id].retry_count = jobs[id].retry_count + 1
              /\ job_queue' = Append(job_queue, id)
              /\ Occurrences(job_queue', id) = 1
        /\ (ret'.op = "retry" /\ ret'.job_id = id /\ ~ret'.val) =>
              /\ jobs'[id] = jobs[id]
              /\ job_queue' = job_queue
        /\ jobs'[id].retry_count # jobs[id].retry_count =>
              (ret'.op = "retry" /\ ret'.job_id = id /\ ret'.val)
        /\ (jobs[id].status # "failed" /\ jobs'[id].status = "failed") =>
              C17_FailureStep(id)

(* C17: of the attempts of the sweep, a retry thread and a caller to retry a
   Failed job, one succeeds per failure: a retry succeeds only on a Failed
   job, makes it Pending, enqueues its id once and adds one to retry_count;
   a refused retry changes nothing; a job is Failed again only by a worker's
   failure, so its successful retries never exceed its failures *)
C17_RetryOncePerFailure == [][C17_Step]_vars

(* a retry was refused because another had already made the job Pending,
   the retry thread of the failure having woken as well *)
C17_Witness ==
    /\ ret.op = "retry" /\ ~ret.val
    /\ Len(failure_history["chA"]) = 1
    /\ ~RetryPending(ret.job_id)
    /\ ret.job_id \in DOMAIN jobs
    /\ jobs[ret.job_id].status = "pending"
    /\ jobs[ret.job_id].retry_count = 1
    /\ Occurrences(job_queue, ret.job_id) = 1

(* the delay analyze_failure suggests for the job *)
C18_Delay(job) == analyze_failure(job.error_message, job.retry_count).suggested_delay

(* a worker reports a Failed job to on_job_failure: schedule_retry starts a
   thread exactly if should_retry_automatically holds, and no time passes *)
C18_ScheduleStep ==
    \A t \in DOMAIN workers :
        LET j == workers[t].job_id
            job == jobs[j]
        IN  (/\ workers[t].pc = "L314" /\ workers'[t].pc = "idle"
             /\ retry_system_installed /\ job.status = "failed") =>
                /\ now' = now
                /\ jobs' = jobs
                /\ retry_threads' =
                      IF should_retry_automatically(job.error_message, job.retry_count,
                                                    job.chapter_id, failure_history', now)
                      THEN retry_threads (+)
                             SetToBag({[job_id |-> j, due |-> now + C18_Delay(job)]})
                      ELSE retry_threads

(* a retry thread applies its retry: its sleep is over, and the job's latest
   failure is at least the suggested delay old *)
C18_WakeStep ==
    \A r \in BagToSet(retry_threads) :
        (retry_threads' = retry_threads (-) SetToBag({r}) /\ ret'.op = "retry") =>
            /\ now >= r.due
            /\ (/\ ret'.val
                /\ AloneInChapter(r.job_id)
                /\ failure_history[jobs[r.job_id].chapter_id] # << >>) =>
                  LET history == failure_history[jobs[r.job_id].chapter_id] IN
                  now >= history[Len(history)] + C18_Delay(jobs[r.job_id])

(* C18: schedule_retry returns at once, having started a retry thread exactly
   when should_retry_automatically holds and nothing otherwise; the thread
   retries only after the suggested delay, so an automatic retry never makes
   a job Pending earlier than that delay after the failure that caused it *)
C18_RetryAfterDelay == [][C18_ScheduleStep /\ C18_WakeStep]_vars

(* an automatic retry has made the job Pending, a positive delay after its
   failure *)
C18_Witness ==
    /\ ret.op = "retry" /\ ret.val
    /\ jobs[ret.job_id].status = "pending"
    /\ failure_history[jobs[ret.job_id].chapter_id] # << >>
    /\ now > failure_history[jobs[ret.job_id].chapter_id][1]

(* C19: the job queue never holds more than max_queue_size ids *)
C19_QueueBounded == Len(job_queue) <= max_queue_size

(* the threads in self.workers, the worker threads alive, the jobs Processing *)
C20_Listed == {t \in DOMAIN workers : workers[t].in_workers}
C20_Live == {t \in DOMAIN workers : workers[t].pc # "exited"}
C20_Processing == {id \in DOMAIN jobs : jobs[id].status = "processing"}

(* C20: start creates exactly max_workers workers and changes nothing when the
   queue is running; stop leaves running false and the worker list empty; at
   no time are more than max_workers worker threads alive or more than
   max_workers jobs Processing *)
C20_WorkersBounded ==
    /\ running => Cardinality(C20_Listed) = max_workers
    /\ ret.op = "start" => running /\ Cardinality(C20_Listed) = max_workers
    /\ ret.op = "stop" => ~running /\ C20_Listed = {}
    /\ Cardinality(C20_Live) <= max_workers
    /\ Cardinality(C20_Processing) <= max_workers

----------------------------------------------------------------------------
(* Claims about faults *)

(* the worker threads are alive, and a notification has called every
   registered callback, whichever of them raised *)
C21_State ==
    /\ \A t \in DOMAIN workers : workers[t].pc # "exited"
    /\ notified.job_id # NoJob => notified.called = status_callbacks

(* a step of a worker changes no other job than the one it holds; after the
   last notification of an attempt the worker waits for the next id; the
   failure a worker reports reaches on_job_failure, which records it *)
C21_Step ==
    \A t \in DOMAIN workers :
        workers'[t] # workers[t] =>
            LET j == IF workers[t].job_id # NoJob THEN workers[t].job_id
                     ELSE workers'[t].job_id
                job == jobs[j]
            IN  /\ DOMAIN jobs' = DOMAIN jobs
                /\ \A o \in DOMAIN jobs \ {j} : jobs'[o] = jobs[o]
                /\ workers[t].pc = "L314" =>
                      /\ workers'[t].pc = "idle"
                      /\ workers'[t].job_id = NoJob
                      /\ job.status = "failed" =>
                            Len(failure_history'[job.chapter_id])
                               = Len(failure_history[job.chapter_id]) + 1

(* C21: no exception crosses from job processing into the worker loop:
   whichever step fails (directory creation, validation, the transcoder,
   cleanup, a status callback that raises), the worker stays alive and goes
   on to later jobs, the remaining status callbacks are still invoked, and no
   field of any other job is changed *)
C21_NoExceptionCrosses == []C21_State /\ [][C21_Step]_vars

(* both jobs have failed at their first attempt, one for a NameError and one
   for the OSError of ensure_directories; the status manager raised in the
   last notification, on_job_failure recorded both failures, and the worker
   waits for the next id *)
C21_Witness ==
    /\ notified.status = "failed" /\ notified.job_id = 2
    /\ notified.raised = {"status_manager"}
    /\ DOMAIN jobs = {1, 2}
    /\ jobs[1].status = "failed" /\ jobs[1].retry_count = 0
    /\ jobs[2].status = "failed" /\ jobs[2].retry_count = 0
    /\ jobs[1].book_id # jobs[2].book_id
    /\ Len(failure_history["chA"]) = 2
    /\ workers[1].pc = "idle"

(* what an attempt leaves in the job, by the exception it caught or the
   transcoder's result: no store call is among the causes *)
C22_State ==
    \A t \in DOMAIN workers :
        LET w == workers[t]
            job == jobs[w.job_id]
        IN  /\ (w.pc \in {"L303", "L314"} /\ w.exc # NONE) =>
                  /\ w.exc = prepare_outcome(job)
                  /\ job.status = "failed"
                  /\ job.error_message = ProcessingError(prepare_outcome(job))
                  /\ job.progress = 10
            /\ (w.pc = "L314" /\ w.exc = NONE /\ ~w.result.success) =>
                  /\ job.status = "failed"
                  /\ job.error_message = w.result.error
                  /\ job.progress = 80
            /\ (w.pc = "L314" /\ w.exc = NONE /\ w.result.success) =>
                  /\ job.status = "completed"
                  /\ job.progress = 100

(* the step in which the worker calls the store leaves the job as it is and
   goes on to the last notification, the store available or not *)
C22_Step ==
    \A t \in DOMAIN workers :
        (workers[t].pc = "L303" /\ workers'[t] # workers[t]) =>
            /\ jobs' = jobs
            /\ workers'[t] = [workers[t] EXCEPT !.pc = "L314"]
            /\ chapters'[jobs[workers[t].job_id].chapter_id].available
                  = chapters[jobs[workers[t].job_id].chapter_id].available

(* C22: a metadata-store outage does not corrupt job state: if a store call
   made during processing raises, the job's final status, progress and error
   message are what they would have been had the call succeeded *)
C22_OutageKeepsJobState == []C22_State /\ [][C22_Step]_vars

(* an attempt has ended while the store of the job's chapter did not answer:
   the chapter was never marked, the job is Failed with the captured error *)
C22_Witness ==
    \E t \in DOMAIN workers :
        LET job == jobs[workers[t].job_id] IN
        /\ workers[t].pc = "L314"
        /\ ~chapters[job.chapter_id].available
        /\ chapters[job.chapter_id].marked_error = 0
        /\ chapters[job.chapter_id].status = "processing"
        /\ job.status = "failed"
        /\ job.error_message = ProcessingError(NameErrorText)

----------------------------------------------------------------------------
(* Claims about the failure history *)

(* the chapters a call of clear_failure_history is about *)
C23_Cleared(chapter_id) == IF chapter_id = "*" THEN Chapters ELSE {chapter_id}

(* what a step in which clear_failure_history returns does *)
C23_ClearStep ==
    rmres'.op = "clear" =>
        LET mine == C23_Cleared(rmres'.chapter_id) IN
        /\ \A c \in mine : failure_history'[c] = << >>
        /\ \A c \in Chapters \ mine : failure_history'[c] = failure_history[c]
        /\ rmres'.val = Cardinality({<<c, i>> \in Chapters \X (1..MaxHistory) :
                                        c \in mine /\ i <= Len(failure_history[c])})
        /\ \A c \in mine, m \in ManagerTexts, rc \in 0..MaxRetryInput :
              should_retry_automatically(m, rc, c, failure_history', now')
                 = (rc < policy_max_retries /\ analyze_failure(m, rc).is_retryable)

(* any step adds at most one record to a chapter's history *)
C23_RecordStep ==
    \A c \in Chapters : Len(failure_history'[c]) <= Len(failure_history[c]) + 1

(* a retry the breaker suppresses: failure_threshold failures are on record,
   all of them recorded since the chapter was last cleared *)
C23_Suppressed ==
    (/\ rmres.op = "should_retry" /\ ~rmres.val
     /\ rmres.retry_count < policy_max_retries
     /\ analyze_failure(rmres.error_message, rmres.retry_count).is_retryable)
    => Len(failure_history[rmres.chapter_id]) >= failure_threshold

(* C23: clear_failure_history(entity) removes all failure records of that
   entity, returns how many it removed and leaves every other entity's history
   unchanged; without an entity it removes all records of all entities;
   afterwards the breaker does not suppress automatic retry for the cleared
   entities until failure_threshold new failures are recorded *)
C23_ClearFailureHistory ==
    []C23_Suppressed /\ [][C23_ClearStep /\ C23_RecordStep]_vars

(* a chapter whose breaker was tripped has been cleared, the records of the
   other chapter are still there *)
C23_Witness ==
    /\ rmres.op = "clear" /\ rmres.chapter_id = "chA"
    /\ rmres.val = failure_threshold
    /\ Len(recent_failures(rmres.before, "chA", now)) >= failure_threshold
    /\ failure_history["chA"] = << >>
    /\ failure_history["chB"] # << >>

----------------------------------------------------------------------------
(* Claims about the transcoder's timeout *)

(* C24: a job whose transcoding exceeds the timeout, and whose attempt met no
   filesystem error and no damaged input, ends Failed with an error text containing "timeout", which analyze_failure classifies Temporary and
   retryable with the backoff delay; once the failure has been reported the
   job is retried automatically while its retry count is below the ceiling
   and the breaker is not tripped *)
C24_TimeoutIsTemporary ==
    \A id \in DOMAIN jobs :
        LET job == jobs[id]
            analysis == analyze_failure(job.error_message, job.retry_count)
        IN  (/\ job.input_path \in SlowInputs
             /\ job.book_id \notin UnwritableBooks
             /\ job.status = "failed"
             /\ job.error_message \notin
                    {ProcessingError(e) : e \in OsErrorTexts} \cup
                    {ProcessingError(<<"Input", "file", "integrity", "check",
                                       "failed", ":">> \o e) :
                         e \in integrity_outcomes}
             /\ \A t \in DOMAIN workers : workers[t].job_id # id)
            => /\ job.error_message # NONE
               /\ In(<<"timeout">>, Lower(job.error_message))
               /\ analysis.failure_type = "temporary"
               /\ analysis.error_category = "temporary"
               /\ analysis.is_retryable
               /\ analysis.suggested_delay = calculate_delay(job.retry_count)
               /\ should_retry_automatically(job.error_message, job.retry_count,
                                             job.chapter_id, failure_history, now)
                     => RetryPending(id)

----------------------------------------------------------------------------
(* Claims about the statistics *)

RECURSIVE SumSeq(_)
SumSeq(s) == IF s = << >> THEN 0 ELSE Head(s) + SumSeq(Tail(s))

(* C25: every result of get_queue_stats is a consistent snapshot: its
   per-status counts sum to its total_jobs, each job counted once *)
C25_StatsConsistent ==
    stats_call.pc = "returned"
        => SumSeq(stats_call.counts) = stats_call.total_jobs

----------------------------------------------------------------------------
(* Claims about the file manager *)

(* C26: no operation of the file manager raises to its caller, whichever
   system calls fail *)
C26_NeverRaises ==
    rmres.op \in FmOperations => ~rmres.val.raised

----------------------------------------------------------------------------
(* Claims about the configuration *)

(* C27: the ceiling the queue enforces on a job and the retry manager's
   policy equal the active profile's values: no job is retried more often
   than the profile allows, no retry waits longer than the profile's longest
   delay, and the queue accepts every retry the retry manager decides on *)
C27_TunablesFromProfile ==
    LET profile == Profiles[current_environment] IN
    /\ \A id \in DOMAIN jobs :
          /\ job_max_retries = profile.max_retries
          /\ policy_max_retries = profile.max_retries
          /\ base_delay = profile.base_delay
          /\ max_delay = profile.max_delay
          /\ jobs[id].retry_count <= profile.max_retries
          /\ (/\ jobs[id].status = "failed"
              /\ should_retry_automatically(jobs[id].error_message,
                                            jobs[id].retry_count,
                                            jobs[id].chapter_id,
                                            failure_history, now))
                => retry_allowed(id)
    /\ \A r \in BagToSet(retry_threads) : r.due - now <= profile.max_delay

----------------------------------------------------------------------------
(* Claims about the delay *)

(* C28: for every error text and every retry count the delay analyze_failure
   suggests, which schedule_retry then sleeps, is at most max_delay *)
C28_DelayCapped ==
    rmres.op = "analyze" => rmres.val.suggested_delay <= max_delay

----------------------------------------------------------------------------
(* Claims about the ownership of a job *)

(* worker t has claimed job id (lines 211-218) and not yet left _process_job *)
C29_Holds(t, id) ==
    /\ workers[t].job_id = id
    /\ workers[t].pc \notin {"idle", "exited", "L211"}

(* no two workers run the processing algorithm for the same job *)
C29_State ==
    \A t, u \in DOMAIN workers :
        \A id \in DOMAIN jobs :
            (C29_Holds(t, id) /\ C29_Holds(u, id)) => t = u

(* while a worker holds a job, a step that changes the job's record is a step
   of that worker *)
C29_Step ==
    \A id \in DOMAIN jobs :
        (/\ jobs'[id] # jobs[id]
         /\ \E t \in DOMAIN workers : C29_Holds(t, id))
        => \E t \in DOMAIN workers : C29_Holds(t, id) /\ workers'[t] # workers[t]

(* C29: at most one worker executes the processing algorithm for a job, and
   while a worker holds a job no other thread (cancel, retry) writes the
   job's fields *)
C29_SoleWriter == []C29_State /\ [][C29_Step]_vars

----------------------------------------------------------------------------
(* Claims about the notifications *)

(* the notification of this step calls every registered callback once, for
   job id, which carries one of `statuses` *)
C30_Notifies(id, statuses) ==
    /\ notified'.job_id = id
    /\ notified'.status \in statuses
    /\ notified'.status = jobs'[id].status
    /\ notified'.called = status_callbacks

(* the notification a worker sends after its claim (line 220) reports
   Processing, the one it sends when its attempt is over (line 314) reports
   the outcome it wrote, Completed or Failed; a cancel reports Cancelled and
   a retry reports Pending *)
C30_Step ==
    /\ \A t \in DOMAIN workers :
          /\ (workers[t].pc = "L220" /\ workers'[t] # workers[t])
                => C30_Notifies(workers[t].job_id, {"processing"})
          /\ (workers[t].pc = "L314" /\ workers'[t] # workers[t])
                => C30_Notifies(workers[t].job_id, {"completed", "failed"})
    /\ \A id \in DOMAIN jobs :
          /\ (jobs[id].status = "failed" /\ jobs'[id].status = "pending")
                => C30_Notifies(id, {"pending"})
          /\ (jobs[id].status = "pending" /\ jobs'[id].status = "cancelled")
                => C30_Notifies(id, {"cancelled"})

(* C30: every status transition is notified once to each registered callback,
   and the job carries the status it has just entered when the callbacks run *)
C30_TransitionNotified == [][C30_Step]_vars

----------------------------------------------------------------------------
(* Claims about the order of the steps of an attempt *)

(* the step of _process_job a worker is at: 1 prepare, 2 validate input,
   3 transcode, 4 validate output, 5 finalize, 6 the handling of a failure,
   7 the notification of the finally clause; 0 outside an attempt *)
C31_StepOf(pc) ==
    CASE pc \in {"L220", "L234"} -> 1
      [] pc \in {"L237", "L238"} -> 2
      [] pc \in {"L246", "L247"} -> 3
      [] pc \in {"L253", "L254"} -> 4
      [] pc \in {"L263", "L265"} -> 5
      [] pc \in {"L282", "L283", "L299", "L300", "L303"} -> 6
      [] pc = "L314" -> 7
      [] OTHER -> 0

(* a worker past the preparation works on an input that exists, in a book
   whose directories could be made; a worker past the transcoder holds its
   result, and finalizes only a success *)
C31_State ==
    \A t \in DOMAIN workers :
        LET w == workers[t] IN
        /\ C31_StepOf(w.pc) \in 2..5
              => /\ jobs[w.job_id].input_path \in ExistingFiles
                 /\ jobs[w.job_id].book_id \notin UnwritableBooks
        /\ C31_StepOf(w.pc) = 5 => w.result.success
        /\ C31_StepOf(w.pc) \in 1..3 => w.result = IdleWorker.result

(* a worker's step stays in its step or moves to the next one, or to the
   handling of a failure, from which no step of the attempt is resumed; the
   transcoder's result is set by the transcode step alone; a job becomes
   Completed only in the finalize step *)
C31_Step ==
    /\ \A t \in DOMAIN workers :
          LET before == C31_StepOf(workers[t].pc)
              after == C31_StepOf(workers'[t].pc)
          IN  /\ before \in 1..4 => after \in {before, before + 1, 6}
              /\ before = 5 => after \in {5, 6, 7}
              /\ before = 6 => after \in {6, 7}
              /\ before = 7 => after \in {7, 0}
              /\ workers'[t].result # workers[t].result
                    => before = 3 \/ after = 0
    /\ \A id \in DOMAIN jobs :
          (jobs[id].status # "completed" /\ jobs'[id].status = "completed")
            => \E t \in DOMAIN workers :
                  /\ workers[t].job_id = id
                  /\ workers[t].pc = "L263"
                  /\ workers[t].result.success

(* C31: the steps of an attempt run in the order prepare, validate input,
   transcode, validate output, finalize; a failure skips the rest; the
   transcoder runs only on an input that exists and passed the check, and a
   job is Completed only after a successful transcoding whose output passed
   the check *)
C31_StepsInOrder == []C31_State /\ [][C31_Step]_vars

(* an attempt that failed in the preparation: the failure is being handled,
   no later step has run (progress is the claim's 10 percent, no result) *)
C31_Witness ==
    \E t \in DOMAIN workers :
        /\ workers[t].pc = "L303"
        /\ workers[t].result = IdleWorker.result
        /\ jobs[workers[t].job_id].status = "failed"
        /\ jobs[workers[t].job_id].progress = 10

----------------------------------------------------------------------------
(* Claims about cancelled jobs *)

(* a Cancelled job was Pending when it was cancelled: no attempt has left
   progress on it *)
C32_State ==
    \A id \in DOMAIN jobs :
        jobs[id].status = "cancelled" => jobs[id].progress = 0

(* a Cancelled job stays Cancelled with its progress; the worker that has
   dequeued its id returns to the loop without a write, a store call, a file
   operation or a notification *)
C32_Step ==
    /\ \A id \in DOMAIN jobs :
          jobs[id].status = "cancelled"
            => /\ jobs'[id].status = "cancelled"
               /\ jobs'[id].progress = jobs[id].progress
               /\ jobs'[id].retry_count = jobs[id].retry_count
    /\ \A t \in DOMAIN workers :
          (/\ workers[t].pc = "L211"
           /\ jobs[workers[t].job_id].status = "cancelled"
           /\ workers'[t] # workers[t])
            => /\ workers'[t].pc \in {"idle", "exited"}
               /\ workers'[t].job_id = NoJob
               /\ jobs' = jobs
               /\ files' = files
               /\ chapters' = chapters
               /\ job_queue' = job_queue
               /\ failure_history' = failure_history
               /\ notified' = NoNotify

(* C32: a cancelled job is never claimed: the worker that dequeues its id
   does nothing, and the job stays Cancelled with progress 0 *)
C32_CancelledNeverClaimed == []C32_State /\ [][C32_Step]_vars

(* a worker has dequeued the id of a job that was cancelled meanwhile *)
C32_Witness ==
    \E t \in DOMAIN workers :
        /\ workers[t].pc = "L211"
        /\ jobs[workers[t].job_id].status = "cancelled"

----------------------------------------------------------------------------
(* Claims about the timestamps *)

(* a job in a terminal status has completed_at set; a job that was never
   claimed has no started_at *)
C33_State ==
    \A id \in DOMAIN jobs :
        /\ jobs[id].status \in {"completed", "failed", "cancelled"}
              => jobs[id].completed_at # NoTime
        /\ (jobs[id].status = "pending" /\ jobs[id].retry_count = 0)
              => jobs[id].started_at = NoTime
        /\ jobs[id].status \in {"processing", "completed", "failed"}
              => jobs[id].started_at # NoTime

(* started_at is set by the first claim and keeps that value *)
C33_Step ==
    \A id \in DOMAIN jobs :
        jobs'[id].started_at =
            IF /\ jobs[id].status = "pending" /\ jobs'[id].status = "processing"
               /\ jobs[id].started_at = NoTime
            THEN now
            ELSE jobs[id].started_at

(* C33: a Completed, Failed or Cancelled job has its completed timestamp
   set, and a job has its started timestamp exactly when it has been claimed
   at least once, with the time of the first claim *)
C33_Timestamps == []C33_State /\ [][C33_Step]_vars

----------------------------------------------------------------------------
(* Claims about the chapter's status *)

(* C34: the chapter's status follows its job: processing while the job is
   Processing, on the first attempt and on every retry; ready once the job
   is Completed; error with the job's message once the job is Failed and the
   worker has left it *)
C34_EntityFollowsJob ==
    \A id \in DOMAIN jobs :
        LET job == jobs[id]
            chapter == chapters[job.chapter_id]
            left == \A t \in DOMAIN workers : workers[t].job_id # id
        IN  /\ job.status = "processing" => chapter.status = "processing"
            /\ (job.status = "completed" /\ left) => chapter.status = "ready"
            /\ (job.status = "failed" /\ left)
                  => /\ chapter.status = "error"
                     /\ chapter.error_message = job.error_message

----------------------------------------------------------------------------
(* Claims about the service of Pending jobs *)

(* C35: under fair scheduling, whatever stop and start calls were made, the
   queue does not stay running with a Pending job for ever: again and again
   it is stopped or no job is Pending *)
C35_PendingServed ==
    []<>(~running \/ \A id \in DOMAIN jobs : jobs[id].status # "pending")

----------------------------------------------------------------------------
(* Claims about the bound on the retries *)

(* no job has been retried more often than max_retries allows *)
C36_State ==
    \A id \in DOMAIN jobs : jobs[id].retry_count <= job_max_retries

(* a claim takes the job from Pending, and a job that exists becomes Pending
   only by a retry that raises its retry_count by one; retry_count changes
   in no other step *)
C36_Step ==
    \A id \in DOMAIN jobs :
        /\ (jobs[id].status # "processing" /\ jobs'[id].status = "processing")
              => jobs[id].status = "pending"
        /\ (jobs[id].status # "pending" /\ jobs'[id].status = "pending")
              => jobs'[id].retry_count = jobs[id].retry_count + 1
        /\ jobs'[id].retry_count # jobs[id].retry_count
              => /\ jobs'[id].retry_count = jobs[id].retry_count + 1
                 /\ jobs'[id].status = "pending"

(* every job is Failed and no retry of it is left to come *)
C36_AllFailed ==
    \A id \in DOMAIN jobs : jobs[id].status = "failed"

(* C36: retries are bounded: retry_count never exceeds max_retries; a job is
   Pending once at submission and once more per retry, and only a Pending job
   is claimed, so it is claimed at most max_retries + 1 times; and with every
   attempt failing, from some time on every job stays Failed for ever *)
C36_RetriesBounded ==
    /\ []C36_State
    /\ [][C36_Step]_vars
    /\ <>[]C36_AllFailed

(* a job failed its last permitted attempt: it was retried max_retries times
   and is Failed with no retry thread left *)
C36_Witness ==
    \E id \in DOMAIN jobs :
        /\ jobs[id].retry_count = job_max_retries
        /\ jobs[id].status = "failed"
        /\ \A t \in DOMAIN workers : workers[t].job_id # id
        /\ ~RetryPending(id)

----------------------------------------------------------------------------
(* Claims about the queue's entries *)

(* the workers that have dequeued the id and not yet tested the job *)
C37_Holders(id) ==
    {t \in DOMAIN workers : workers[t].pc = "L211" /\ workers[t].job_id = id}

(* C37: no Pending job is lost and none is queued twice: the id of each
   Pending job is in the queue once or held by one worker that has dequeued
   it and not yet claimed the job, never both; and no job's id occurs in the
   queue more than once *)
C37_QueuedOnce ==
    \A id \in DOMAIN jobs :
        /\ Occurrences(job_queue, id) <= 1
        /\ jobs[id].status = "pending"
              => Occurrences(job_queue, id) + Cardinality(C37_Holders(id)) = 1

(* a retried job, Pending again, is held by a worker that has dequeued it,
   while the id of a cancelled job still waits in the queue *)
C37_Witness ==
    \E id \in DOMAIN jobs :
        /\ jobs[id].status = "pending"
        /\ jobs[id].retry_count > 0
        /\ C37_Holders(id) # {}
        /\ \E o \in DOMAIN jobs :
              jobs[o].status = "cancelled" /\ Occurrences(job_queue, o) = 1

----------------------------------------------------------------------------
(* Claims about the record of the failures *)

(* worker t ends an attempt that failed: it sends the notification of the
   finally clause (line 314) after the failure branch or the except branch *)
C38_EndsFailedAttempt(t) ==
    /\ workers[t].pc = "L314"
    /\ workers[t].exc # NONE \/ ~workers[t].result.success
    /\ workers'[t] # workers[t]

(* the end of a failed attempt appends one timestamp to the history of the
   job's chapter and prunes it; no other step appends anything *)
C38_Step ==
    /\ \A t \in DOMAIN workers :
          C38_EndsFailedAttempt(t) =>
              failure_history' =
                  record_failure(failure_history,
                                 jobs[workers[t].job_id].chapter_id, now)
    /\ (\A t \in DOMAIN workers : ~C38_EndsFailedAttempt(t)) =>
          \A c \in Chapters : Len(failure_history'[c]) <= Len(failure_history[c])

(* C38: with the retry system installed every failed attempt runs the failure
   handler once, which appends one timestamp to the chapter's failure history
   and prunes the entries older than 24 hours; cancel, retry and progress
   notifications append nothing; a retry that races with the failing worker
   leaves no failure unrecorded *)
C38_FailureRecordedOnce == [][C38_Step]_vars

----------------------------------------------------------------------------
(* Claims about the output files *)

(* a Completed job's output file exists *)
C39_State ==
    \A id \in DOMAIN jobs :
        jobs[id].status = "completed" => output_path(jobs[id]) \in files

(* no step removes a file of a media directory *)
C39_Step ==
    \A f \in files : f.dir = "media" => f \in files'

(* C39: the pipeline never destroys the output of a Completed job: the
   failure cleanup of a job removes no output file, also not one at the
   path it shares with another job, so a Completed job's output exists *)
C39_OutputKept == []C39_State /\ [][C39_Step]_vars

(* a file exists at the output path of a job whose failed attempt is over *)
C39_FailedBesideOutput ==
    \E id \in DOMAIN jobs :
        /\ jobs[id].status = "failed"
        /\ output_path(jobs[id]) \in files
        /\ \A t \in DOMAIN workers : workers[t].job_id # id

(* some job is Completed *)
C39_SomeCompleted ==
    \E id \in DOMAIN jobs : jobs[id].status = "completed"

----------------------------------------------------------------------------
(* Claims about the locks *)

(* the locks a call holds, in the order it took them: self.lock alone, or
   self.lock and then the status manager's; never the retry manager's *)
C40_State ==
    \A c \in Callers :
        locked_calls[c].held \in {<< >>, <<queue_lock>>,
                                  <<queue_lock, status_manager_lock>>}

(* a call is inside cancel_job or retry_job *)
C40_Inside(c) == locked_calls[c].pc # "none"

(* C40: the locks cannot deadlock: no thread holds the job-table lock and the
   failure-history lock together, locks are nested only in the order
   job-table lock, status-manager lock, and every call that has taken the
   job-table lock returns and releases it *)
C40_NoDeadlock ==
    /\ []C40_State
    /\ \A c \in Callers : C40_Inside(c) ~> ~C40_Inside(c)

(* a caller's retry_job holds self.lock and the status manager's lock while
   the worker that failed the job has not yet sent its notification *)
C40_Witness ==
    /\ locked_calls["api"].op = "retry"
    /\ locked_calls["api"].held = <<queue_lock, status_manager_lock>>
    /\ \E t \in DOMAIN workers :
          /\ workers[t].job_id = locked_calls["api"].job_id
          /\ workers[t].pc = "L314"

====
